---- MODULE Spec2Model ----
(***************************************************************************)
(* Transport layer of file-share-server: the TCP file-transfer engine      *)
(* (app/network/tcp_server.py), the TCP voice relay                        *)
(* (app/network/voice_server.py) and the UDP multicast radio engine        *)
(* (app/network/multicast_server.py).                                      *)
(*                                                                         *)
(* Each engine has its own specification (SpecFT, SpecVoice, SpecRadio);   *)
(* the engines share no state, so each specification leaves the variables  *)
(* of the other engines unchanged.                                         *)
(***************************************************************************)
EXTENDS Integers, Sequences, FiniteSets, TLC

(***************************************************************************)
(* Bounds of the model.                                                    *)
(***************************************************************************)
\* largest filesize a peer declares in an UPLOAD
MaxFileSize == 3
\* conn.recv(BUFFER_SIZE): 4096 in tcp_server.py, scaled to the file sizes
\* of the model so that an upload takes one or several reads
BUFFER_SIZE == 2

(***************************************************************************)
(*                        FILE TRANSFER ENGINE                             *)
(***************************************************************************)
\* file-transfer connections; one worker thread (handle_client) each
Conns == {1, 2}

\* UPLOAD_DIR = Path(settings.UPLOAD_DIR), as a sequence of path components
UPLOAD_DIR == <<"uploads">>

\* filenames a peer sends, as sequences of path components:
\* "a", "b", "./a" and the empty string
FileNames == {<<"a">>, <<"b">>, <<".", "a">>}
EmptyName == <<>>

\* filenames that name a file outside the upload root: "../secret" and the
\* absolute path "/f" (the component "/" is the root of the file system)
EscapingNames == {<<"..", "secret">>, <<"/", "f">>}

\* UPLOAD_DIR / filename: pathlib drops "." components when joining, keeps
\* ".." components, and gives the right operand when it is absolute
JoinPath(root, name) ==
    IF name # <<>> /\ name[1] = "/"
    THEN name
    ELSE root \o SelectSeq(name, LAMBDA comp : comp # ".")

\* the file a path names when it is opened: the file system follows each
\* ".." component to the parent directory
RECURSIVE Collapse(_, _)
Collapse(done, rest) ==
    IF rest = <<>> THEN done
    ELSE IF Head(rest) = ".."
    THEN Collapse(IF done = <<>> THEN <<>>
                  ELSE SubSeq(done, 1, Len(done) - 1), Tail(rest))
    ELSE Collapse(Append(done, Head(rest)), Tail(rest))

Resolve(p) == Collapse(<<>>, p)

\* the paths the requests of the model can name
Paths == {JoinPath(UPLOAD_DIR, n) : n \in FileNames}

\* a sub-directory of the upload root and a file in it
SubDir == UPLOAD_DIR \o <<"d">>
Nested == SubDir \o <<"x">>

\* the files outside the upload root that a request can name
OutsidePaths == {Resolve(JoinPath(UPLOAD_DIR, n)) : n \in EscapingNames}

\* every path of the model's file system
Entries == Paths \cup {SubDir, Nested} \cup OutsidePaths

\* content of a path that does not exist, and of a path that is a directory
Absent == <<-1>>
Dir == <<-2>>

\* i-th payload byte sent on connection c (distinct across connections)
Byte(c, i) == c * 10 + i
Payload(c, n) == [i \in 1..n |-> Byte(c, i)]

\* content of a file that exists before any connection is served
OldContent == <<1, 2>>

\* what the peer of a connection does: its first message (cmd, filename,
\* filesize), the number of payload bytes it sends before it closes its
\* side (sends), its answer to a DOWNLOAD response (ready), and what is
\* wrong with the session (fault): "reset", the connection breaks after the
\* payload bytes instead of being closed; "badsize", the filesize field is
\* not a number; "noname", the message has no filename field
UploadScripts ==
    [cmd : {"UPLOAD"}, filename : FileNames, filesize : 1..MaxFileSize,
     sends : 0..MaxFileSize, ready : {"none"}, fault : {"none", "reset"}]
InvalidUploadScripts ==
    [cmd : {"UPLOAD"}, filename : {EmptyName}, filesize : {1},
     sends : {0}, ready : {"none"}, fault : {"none"}]
    \cup [cmd : {"UPLOAD"}, filename : {<<"a">>}, filesize : {0},
          sends : {0}, ready : {"none"}, fault : {"none", "badsize"}]
DownloadScripts ==
    [cmd : {"DOWNLOAD"}, filename : {<<"a">>, <<"b">>}, filesize : {0},
     sends : {0}, ready : {"READY", "junk", "closed"}, fault : {"none"}]
    \cup [cmd : {"DOWNLOAD"}, filename : {EmptyName}, filesize : {0},
          sends : {0}, ready : {"none"}, fault : {"noname"}]
\* LIST; a JSON object with another command or none ("OTHER"); bytes that
\* are not JSON, or no bytes ("GARBAGE"); JSON that is not an object, such
\* as a non-empty array ("ARRAY")
OtherScripts ==
    [cmd : {"LIST", "OTHER", "GARBAGE", "ARRAY"}, filename : {EmptyName},
     filesize : {0}, sends : {0}, ready : {"none"}, fault : {"none"}]
\* a connection breaks before the last declared byte has arrived; broken
\* connections are tried on uploads of one file
\* sessions that name a file outside the upload root, or the file "a"
EscapeScripts ==
    [cmd : {"UPLOAD"}, filename : EscapingNames \cup {<<"a">>}, filesize : {1},
     sends : {0, 1}, ready : {"none"}, fault : {"none"}]
    \cup [cmd : {"DOWNLOAD"}, filename : EscapingNames \cup {<<"a">>},
          filesize : {0}, sends : {0}, ready : {"READY"}, fault : {"none"}]
    \cup InvalidUploadScripts \cup OtherScripts

\* sessions whose peer goes on sending after the declared filesize: uploads
\* of the file "a" with up to MaxFileSize + 1 payload bytes
ExcessScripts ==
    [cmd : {"UPLOAD"}, filename : {<<"a">>}, filesize : 1..MaxFileSize,
     sends : {0, MaxFileSize, MaxFileSize + 1}, ready : {"none"},
     fault : {"none"}]
    \cup [cmd : {"DOWNLOAD"}, filename : {<<"a">>}, filesize : {0},
          sends : {0}, ready : {"READY", "junk"}, fault : {"none"}]
    \cup InvalidUploadScripts \cup OtherScripts

Scripts ==
    {s \in UploadScripts :
        IF s.fault = "reset"
        THEN s.sends < s.filesize /\ s.filename = <<"a">>
        ELSE s.sends <= s.filesize}
    \cup InvalidUploadScripts \cup DownloadScripts \cup OtherScripts

NoScript ==
    [cmd |-> "NONE", filename |-> EmptyName, filesize |-> 0, sends |-> 0,
     ready |-> "none", fault |-> "none"]

VARIABLES
    ftpc,       \* position of each connection's worker in handle_client
    script,     \* what the peer of each connection sends
    ranWith,    \* the connections whose worker ran while this one's did
    received,   \* handle_client: received
    wrote,      \* bytes passed to f.write by the session, in order
    wbuf,       \* bytes written to the handle and not yet flushed
    woff,       \* file offset of the upload handle
    disk,       \* content of every path under the upload root
    replies,    \* JSON replies sent on each connection, in order
    dlsize,     \* filesize announced by a DOWNLOAD response
    dlsent,     \* file bytes transmitted by a DOWNLOAD
    roff,       \* read offset of the download handle
    listed,     \* count and files of the LIST reply
    raised,     \* an exception was raised in the worker's try block
    endlog      \* what the worker did in its except and finally blocks

peerVars == <<script, ranWith>>
upVars == <<received, wrote, wbuf, woff>>
dlVars == <<dlsize, dlsent, roff>>
endVars == <<raised, endlog>>
ftvars == <<ftpc, peerVars, upVars, disk, replies, dlVars, listed, endVars>>

\* an open that creates the file and keeps the content of an existing one
TruncateKeep(d, p) == [d EXCEPT ![p] = IF @ = Absent THEN <<>> ELSE @]

\* open(save_path, 'wb'): create or truncate
Truncate(d, p) == [d EXCEPT ![p] = <<>>]

\* a write that ignores the handle's offset and appends to the file
WriteAtEnd(data, off, bytes) ==
    (IF data = Absent THEN <<>> ELSE data) \o bytes

\* write bytes at offset off of content data (a hole reads as zeros)
WriteAt(data, off, bytes) ==
    LET base == IF data = Absent THEN <<>> ELSE data
        newlen == IF off + Len(bytes) > Len(base)
                  THEN off + Len(bytes) ELSE Len(base)
    IN  [i \in 1..newlen |->
            IF i > off /\ i <= off + Len(bytes) THEN bytes[i - off]
            ELSE IF i <= Len(base) THEN base[i]
            ELSE 0]

\* a worker that writes every upload to one shared path
SavePathShared(c) == JoinPath(UPLOAD_DIR, <<"a">>)

\* save_path = UPLOAD_DIR / filename
SavePath(c) == Resolve(JoinPath(UPLOAD_DIR, script[c].filename))

FTInit ==
    /\ ftpc = [c \in Conns |-> "idle"]
    /\ script = [c \in Conns |-> NoScript]
    /\ ranWith = [c \in Conns |-> {}]
    /\ received = [c \in Conns |-> 0]
    /\ wrote = [c \in Conns |-> <<>>]
    /\ wbuf = [c \in Conns |-> <<>>]
    /\ woff = [c \in Conns |-> 0]
    /\ disk \in {[p \in Entries |-> Absent],
                 [p \in Entries |->
                     IF p = JoinPath(UPLOAD_DIR, <<"a">>) THEN OldContent
                     ELSE IF p = SubDir THEN Dir
                     ELSE IF p = Nested THEN OldContent
                     ELSE IF p \in OutsidePaths THEN OldContent
                     ELSE Absent]}
    /\ replies = [c \in Conns |-> <<>>]
    /\ dlsize = [c \in Conns |-> 0]
    /\ dlsent = [c \in Conns |-> <<>>]
    /\ roff = [c \in Conns |-> 0]
    /\ listed = [c \in Conns |-> [count |-> 0, files |-> {}]]
    /\ raised = [c \in Conns |-> FALSE]
    /\ endlog = [c \in Conns |-> <<>>]

\* start_tcp_server: sock.accept() and the start of the worker thread;
\* the peer's behaviour on this connection is fixed here
AcceptFrom(c, sessions) ==
    /\ ftpc[c] = "idle"
    /\ \E s \in sessions : script' = [script EXCEPT ![c] = s]
    /\ ftpc' = [ftpc EXCEPT ![c] = "recv_req"]
    /\ LET live == {d \in Conns \ {c} : ftpc[d] \notin {"idle", "done"}}
       IN  ranWith' = [d \in Conns |->
                          IF d = c THEN live
                          ELSE IF d \in live THEN ranWith[d] \cup {c}
                          ELSE ranWith[d]]
    /\ UNCHANGED <<upVars, disk, replies, dlVars, listed, endVars>>

Accept(c) == AcceptFrom(c, Scripts)

Reply(c, msg) == replies' = [replies EXCEPT ![c] = Append(@, msg)]

\* an exception that takes down every running worker
RaiseAll(pcs, c) ==
    [d \in Conns |-> IF pcs[d] \in {"idle", "done"} THEN pcs[d] ELSE "except"]

\* an exception raised inside the try block of handle_client is caught by
\* the except clause of line 110 of the worker that raised it
Raise(pcs, c) == [pcs EXCEPT ![c] = "except"]

\* a validation that tests the filename only
InvalidUploadNameOnly(filename, filesize) == filename = EmptyName

\* the test of line 54: not filename or filesize <= 0
InvalidUpload(filename, filesize) == filename = EmptyName \/ filesize <= 0

\* handle_client lines 44-58: first message, dispatch, UPLOAD validation
\* and the 'ok' reply; int() raises on a filesize that is not a number
RecvUpload(c) ==
    /\ ftpc[c] = "recv_req"
    /\ script[c].cmd = "UPLOAD"
    /\ IF script[c].fault = "badsize"
       THEN /\ ftpc' = Raise(ftpc, c)
            /\ raised' = [raised EXCEPT ![c] = TRUE]
            /\ UNCHANGED replies
       ELSE IF InvalidUpload(script[c].filename, script[c].filesize)
       THEN /\ Reply(c, "Invalid upload request")
            /\ ftpc' = [ftpc EXCEPT ![c] = "finally"]
            /\ UNCHANGED raised
       ELSE /\ Reply(c, "ok")
            /\ ftpc' = [ftpc EXCEPT ![c] = "open"]
            /\ UNCHANGED raised
    /\ UNCHANGED <<peerVars, upVars, disk, dlVars, listed, endlog>>

\* handle_client lines 60-63: open(save_path, 'wb')
OpenUpload(c) ==
    /\ ftpc[c] = "open"
    /\ disk' = Truncate(disk, SavePath(c))
    /\ received' = [received EXCEPT ![c] = 0]
    /\ woff' = [woff EXCEPT ![c] = 0]
    /\ wbuf' = [wbuf EXCEPT ![c] = <<>>]
    /\ ftpc' = [ftpc EXCEPT ![c] = "recv_loop"]
    /\ UNCHANGED <<peerVars, wrote, replies, dlVars, listed, endVars>>

\* a read that asks for a full buffer whatever is left to receive
ReadSizeFull(filesize, r) == BUFFER_SIZE

\* line 65: min(BUFFER_SIZE, filesize - received)
ReadSize(filesize, r) ==
    IF BUFFER_SIZE < filesize - r THEN BUFFER_SIZE ELSE filesize - r

\* a worker that counts reads instead of bytes
AddReceivedPerRead(r, chunk) == r + 1

\* received += len(chunk)
AddReceived(r, chunk) == r + Len(chunk)

\* the loop test of line 64
LoopContinues(r, filesize) == r < filesize

\* handle_client lines 64-69: one iteration of the receive loop.  recv
\* returns between 1 and min(BUFFER_SIZE, filesize - received) of the bytes
\* the peer sent and the worker has not read yet, or nothing once the peer
\* has closed; on a connection that broke it raises, and the exception
\* leaves the with block, which closes the file.  f.write appends to the
\* handle's buffer, which the io layer flushes at a time the worker does
\* not control.
RecvChunk(c) ==
    /\ ftpc[c] = "recv_loop"
    /\ LET want == ReadSize(script[c].filesize, received[c])
           have == script[c].sends - Len(wrote[c])
       IN  IF have <= 0
           THEN \* chunk = b'': break, or recv raises
                /\ ftpc' = [ftpc EXCEPT ![c] = "close_file"]
                /\ raised' = [raised EXCEPT ![c] = script[c].fault = "reset"]
                /\ UNCHANGED <<upVars, disk>>
           ELSE \E n \in 1..(IF want < have THEN want ELSE have) :
                \E flush \in BOOLEAN :
                LET chunk == [i \in 1..n |-> Byte(c, Len(wrote[c]) + i)]
                    r2 == AddReceived(received[c], chunk)
                    pending == wbuf[c] \o chunk
                IN  /\ received' = [received EXCEPT ![c] = r2]
                    /\ wrote' = [wrote EXCEPT ![c] = @ \o chunk]
                    /\ IF flush
                       THEN /\ disk' = [disk EXCEPT ![SavePath(c)] =
                                           WriteAt(@, woff[c], pending)]
                            /\ woff' = [woff EXCEPT ![c] = @ + Len(pending)]
                            /\ wbuf' = [wbuf EXCEPT ![c] = <<>>]
                       ELSE /\ wbuf' = [wbuf EXCEPT ![c] = pending]
                            /\ UNCHANGED <<disk, woff>>
                    /\ ftpc' = [ftpc EXCEPT ![c] =
                                   IF LoopContinues(r2, script[c].filesize)
                                   THEN "recv_loop" ELSE "close_file"]
                    /\ UNCHANGED raised
    /\ UNCHANGED <<peerVars, replies, dlVars, listed, endlog>>

\* a handle that is dropped without being flushed
CloseNoFlush(data, off, buf) == data

\* closing the handle writes what its buffer still holds
CloseFlush(data, off, buf) ==
    IF buf = <<>> THEN data ELSE WriteAt(data, off, buf)

\* end of the with block of line 63: the handle is flushed and closed, on
\* the normal way out and on the way out of an exception
CloseUpload(c) ==
    /\ ftpc[c] = "close_file"
    /\ disk' = [disk EXCEPT ![SavePath(c)] = CloseFlush(@, woff[c], wbuf[c])]
    /\ woff' = [woff EXCEPT ![c] = @ + Len(wbuf[c])]
    /\ wbuf' = [wbuf EXCEPT ![c] = <<>>]
    /\ ftpc' = IF raised[c] THEN Raise(ftpc, c)
               ELSE [ftpc EXCEPT ![c] = "status"]
    /\ UNCHANGED <<peerVars, received, wrote, replies, dlVars, listed,
                   endVars>>

\* the test of line 71
UploadComplete(r, filesize) == r = filesize

\* handle_client lines 71-76: the final status of an upload
UploadStatus(c) ==
    /\ ftpc[c] = "status"
    /\ Reply(c, IF UploadComplete(received[c], script[c].filesize)
                THEN "success" ELSE "Incomplete upload")
    /\ ftpc' = [ftpc EXCEPT ![c] = "finally"]
    /\ UNCHANGED <<peerVars, upVars, disk, dlVars, listed, endVars>>

\* handle_client lines 78-86: DOWNLOAD request and its response; the path
\* join of line 80 raises when the message has no filename
RecvDownload(c) ==
    /\ ftpc[c] = "recv_req"
    /\ script[c].cmd = "DOWNLOAD"
    /\ IF script[c].fault = "noname"
       THEN /\ ftpc' = Raise(ftpc, c)
            /\ raised' = [raised EXCEPT ![c] = TRUE]
            /\ UNCHANGED <<replies, dlVars>>
       ELSE IF disk[SavePath(c)] = Absent
       THEN /\ Reply(c, "Not found")
            /\ ftpc' = [ftpc EXCEPT ![c] = "finally"]
            /\ UNCHANGED <<dlVars, raised>>
       ELSE /\ Reply(c, "ok filesize")
            /\ dlsize' = [dlsize EXCEPT ![c] = Len(disk[SavePath(c)])]
            /\ ftpc' = [ftpc EXCEPT ![c] = "wait_ready"]
            /\ UNCHANGED <<dlsent, roff, raised>>
    /\ UNCHANGED <<peerVars, upVars, disk, listed, endlog>>

\* a worker that streams whatever the peer answers
IsReadyAny(ready) == TRUE

\* the test of line 90: the peer sent something, and it is READY
IsReady(ready) == ready = "READY"

\* handle_client lines 89-94: conn.recv(16), the READY test, open for read
WaitReady(c) ==
    /\ ftpc[c] = "wait_ready"
    /\ ftpc' = [ftpc EXCEPT ![c] =
                   IF IsReady(script[c].ready) THEN "send_loop"
                   ELSE "finally"]
    /\ roff' = [roff EXCEPT ![c] = 0]
    /\ UNCHANGED <<peerVars, upVars, disk, replies, dlsize, dlsent, listed,
                   endVars>>

\* handle_client lines 95-99: one iteration of the send loop; f.read
\* returns up to BUFFER_SIZE bytes of what the file holds now
SendChunk(c) ==
    /\ ftpc[c] = "send_loop"
    /\ LET data == disk[SavePath(c)]
           last == IF roff[c] + BUFFER_SIZE < Len(data)
                   THEN roff[c] + BUFFER_SIZE ELSE Len(data)
           chunk == IF roff[c] >= Len(data) THEN <<>>
                    ELSE SubSeq(data, roff[c] + 1, last)
       IN  IF chunk = <<>>
           THEN /\ ftpc' = [ftpc EXCEPT ![c] = "finally"]
                /\ UNCHANGED <<dlsent, roff>>
           ELSE /\ dlsent' = [dlsent EXCEPT ![c] = @ \o chunk]
                /\ roff' = [roff EXCEPT ![c] = @ + Len(chunk)]
                /\ UNCHANGED ftpc
    /\ UNCHANGED <<peerVars, upVars, disk, replies, dlsize, listed, endVars>>

\* a listing that takes every entry for a file
IsFileAny(data) == data # Absent

\* f.is_file()
IsFile(data) == data # Absent /\ data # Dir

\* UPLOAD_DIR.iterdir(): the entries directly under the upload root
IterDir(d, root) ==
    {p \in DOMAIN d :
        /\ Len(p) = Len(root) + 1
        /\ SubSeq(p, 1, Len(root)) = root
        /\ d[p] # Absent}

\* f.name: the last component of a path
Name(p) == p[Len(p)]

\* handle_client lines 103-105: LIST
RecvList(c) ==
    /\ ftpc[c] = "recv_req"
    /\ script[c].cmd = "LIST"
    /\ LET files == {Name(p) : p \in {q \in IterDir(disk, UPLOAD_DIR) :
                                          IsFile(disk[q])}}
       IN  listed' = [listed EXCEPT ![c] =
                         [count |-> Cardinality(files), files |-> files]]
    /\ Reply(c, "list")
    /\ ftpc' = [ftpc EXCEPT ![c] = "finally"]
    /\ UNCHANGED <<peerVars, upVars, disk, dlVars, endVars>>

\* handle_client lines 107-108: any other command
RecvUnknown(c) ==
    /\ ftpc[c] = "recv_req"
    /\ script[c].cmd = "OTHER"
    /\ Reply(c, "Unknown command")
    /\ ftpc' = [ftpc EXCEPT ![c] = "finally"]
    /\ UNCHANGED <<peerVars, upVars, disk, dlVars, listed, endVars>>

\* handle_client lines 44-47: _recv_json returned {} (no data or a message
\* that does not parse)
RecvEmpty(c) ==
    /\ ftpc[c] = "recv_req"
    /\ script[c].cmd = "GARBAGE"
    /\ ftpc' = [ftpc EXCEPT ![c] = "finally"]
    /\ UNCHANGED <<peerVars, upVars, disk, replies, dlVars, listed, endVars>>

\* handle_client lines 44-49: _recv_json returned JSON that is not an
\* object; it is truthy, and req.get raises AttributeError
RecvNonObject(c) ==
    /\ ftpc[c] = "recv_req"
    /\ script[c].cmd = "ARRAY"
    /\ ftpc' = Raise(ftpc, c)
    /\ raised' = [raised EXCEPT ![c] = TRUE]
    /\ UNCHANGED <<peerVars, upVars, disk, replies, dlVars, listed, endlog>>

\* sendall and shutdown fail on a connection that broke
Connected(c) == script[c].fault # "reset"

\* handle_client lines 110-115: the except clause attempts a JSON error
\* reply carrying str(e); _send_json swallows a failed send
Except(c) ==
    /\ ftpc[c] = "except"
    /\ LET sent == Connected(c)
       IN  /\ replies' = [replies EXCEPT ![c] =
                             IF sent THEN Append(@, "exception") ELSE @]
           /\ endlog' = [endlog EXCEPT ![c] =
                            Append(@, IF sent THEN "error_reply"
                                      ELSE "error_reply_failed")]
    /\ ftpc' = [ftpc EXCEPT ![c] = "finally"]
    /\ UNCHANGED <<peerVars, upVars, disk, dlVars, listed, raised>>

\* a finally block that closes only after a successful shutdown
FinallyStepsNoClose(shut) ==
    IF shut THEN <<"shutdown", "close">> ELSE <<"shutdown_failed">>

\* lines 117-121: shutdown inside try/except, then close
FinallySteps(shut) ==
    <<IF shut THEN "shutdown" ELSE "shutdown_failed", "close">>

\* a worker that goes back to read the next command of its connection
AfterCloseServeNext(pc) == "recv_req"

\* handle_client has no loop around its dispatch: the function returns after
\* the finally block and the thread ends
AfterClose(pc) == "done"

\* handle_client lines 116-122: shutdown (which may fail) and close
Finally(c) ==
    /\ ftpc[c] = "finally"
    /\ endlog' = [endlog EXCEPT ![c] = @ \o FinallySteps(Connected(c))]
    /\ ftpc' = [ftpc EXCEPT ![c] = AfterClose(ftpc[c])]
    /\ UNCHANGED <<peerVars, upVars, disk, replies, dlVars, listed, raised>>


(***************************************************************************)
(*                            VOICE RELAY                                  *)
(***************************************************************************)
\* largest number of audio frames the relay reads in one run
MaxFrames == 2

\* voice connections; one worker thread (handle_client) each
VConns == {1, 2, 3}

\* room identifiers peers ask for
Rooms == {"r1", "r2"}

\* first framed message of a voice connection.  wire: what arrives ("eof":
\* the peer closed before a whole packet arrived, "zero": a packet of
\* declared length 0, "garbage": bytes that are not JSON, "array": JSON that
\* is not an object, "object": a JSON object); type and room: the fields of
\* the object ("absent": no such key, "list": a non-empty JSON array)
FirstMsg(w, t, r) == [wire |-> w, type |-> t, room |-> r]
InvalidFirst ==
    {FirstMsg("eof", "absent", "absent"),
     FirstMsg("zero", "absent", "absent"),
     FirstMsg("garbage", "absent", "absent"),
     FirstMsg("array", "absent", "absent"),
     FirstMsg("object", "audio", "r1"),
     FirstMsg("object", "absent", "r1"),
     FirstMsg("object", "join", "absent"),
     FirstMsg("object", "join", "")}
ValidFirst == {FirstMsg("object", "join", r) : r \in Rooms \cup {"list"}}
FirstMsgs == InvalidFirst \cup ValidFirst

\* the message is a JSON object of type join with a non-empty room
IsJoinDescriptor(m) ==
    m.wire = "object" /\ m.type = "join" /\ m.room \notin {"absent", ""}

\* a join check that forgets the test of the room field
RecvJoinAnyRoom(m) ==
    IF m.wire \in {"eof", "zero", "garbage"} THEN "none"
    ELSE IF m.wire = "array" THEN "raise"
    ELSE IF m.type # "join" THEN "none"
    ELSE IF m.room = "absent" THEN "none"
    ELSE m.room

\* _recv_join: the room of a valid join descriptor, "none" for the None
\* result, "raise" when data.get fails on JSON that is not an object
RecvJoin(m) ==
    IF m.wire \in {"eof", "zero"} THEN "none"
    ELSE IF m.wire = "garbage" THEN "none"
    ELSE IF m.wire = "array" THEN "raise"
    ELSE IF m.type # "join" THEN "none"
    ELSE IF m.room \in {"absent", ""} THEN "none"
    ELSE m.room

\* an add that enters the connection in every room of the dictionary
RegAddAllRooms(reg, room, conn) ==
    [r \in DOMAIN reg \cup {room} |->
        (IF r \in DOMAIN reg THEN reg[r] ELSE {}) \cup {conn}]

\* VoiceRoomRegistry.add: self._rooms.setdefault(room, set()).add(conn)
RegAdd(reg, room, conn) ==
    [r \in DOMAIN reg \cup {room} |->
        IF r = room
        THEN (IF room \in DOMAIN reg THEN reg[room] ELSE {}) \cup {conn}
        ELSE reg[r]]

\* a remove that leaves the emptied entry in the dictionary
RegRemoveKeepEntry(reg, room, conn) ==
    IF room \in DOMAIN reg /\ conn \in reg[room]
    THEN [reg EXCEPT ![room] = @ \ {conn}]
    ELSE reg

\* VoiceRoomRegistry.remove
RegRemove(reg, room, conn) ==
    IF room \in DOMAIN reg /\ conn \in reg[room]
    THEN IF reg[room] \ {conn} = {}
         THEN [r \in DOMAIN reg \ {room} |-> reg[r]]
         ELSE [reg EXCEPT ![room] = @ \ {conn}]
    ELSE reg

\* a peers lookup that returns every registered connection
RegPeersAllRooms(reg, room) == UNION {reg[r] : r \in DOMAIN reg}

\* VoiceRoomRegistry.peers: a copy of the member set
RegPeers(reg, room) == IF room \in DOMAIN reg THEN reg[room] ELSE {}

VARIABLES
    vpc,        \* position of each voice worker in handle_client
    peer,       \* the remote end of each connection: "live" or "closed"
                \* (it has shut the connection down, or the connection
                \* broke)
    firstOK,    \* the first message was a join descriptor
    vroom,      \* handle_client: room ("none" for None)
    rooms,      \* ROOMS._rooms
    consumed,   \* audio frames the worker has read from its connection
    nframes,    \* audio frames read by all workers
    fanout,     \* peers of the current frame not yet written to
    delivered,  \* packets written to each connection's socket, in order
    sockOpen,   \* the server side of the connection is not closed
    everMember, \* the connection has been in the registry
    owed,       \* members of the worker's room, other than itself, that
                \* the current frame has not been written to
    lateWrite,  \* a packet was written to a connection that had left
    wfail       \* per worker, the writes of its current frame that
                \* failed: the receiver, and whether it was a member of
                \* the room when the write failed

vghost == <<firstOK, everMember>>
vvars == <<vpc, peer, vroom, rooms, consumed, nframes, fanout, delivered,
           sockOpen, owed, lateWrite, wfail, vghost>>

VoiceInit ==
    /\ vpc = [v \in VConns |-> "idle"]
    /\ peer = [v \in VConns |-> "live"]
    /\ firstOK = [v \in VConns |-> FALSE]
    /\ vroom = [v \in VConns |-> "none"]
    /\ rooms = [r \in {} |-> {}]
    /\ consumed = [v \in VConns |-> 0]
    /\ nframes = 0
    /\ fanout = [v \in VConns |-> {}]
    /\ delivered = [v \in VConns |-> <<>>]
    /\ sockOpen = [v \in VConns |-> FALSE]
    /\ everMember = [v \in VConns |-> FALSE]
    /\ owed = [v \in VConns |-> {}]
    /\ lateWrite = FALSE
    /\ wfail = [v \in VConns |-> {}]

\* a cleanup that takes every room for None
TruthyNever(room) == FALSE

\* if room: (None and the empty string are falsy)
Truthy(room) == room \notin {"none", ""}

\* start_voice_server lines 131-134 and handle_client lines 89-96: the
\* connection is accepted, its worker reads the first message m and, for a
\* join, adds the connection to the room.  A room that is a JSON array is
\* unhashable: add raises, and so does the remove of the finally block,
\* which ends the thread before the socket is closed.
VJoin(v, m) ==
    /\ vpc[v] = "idle"
    /\ sockOpen' = [sockOpen EXCEPT ![v] = TRUE]
    /\ firstOK' = [firstOK EXCEPT ![v] = IsJoinDescriptor(m)]
    /\ peer' = [peer EXCEPT ![v] = IF m.wire = "eof" THEN "closed" ELSE @]
    /\ LET res == RecvJoin(m)
       IN  IF res \in {"none", "raise"}
           THEN /\ vpc' = [vpc EXCEPT ![v] = "cleanup"]
                /\ UNCHANGED <<vroom, rooms, everMember>>
           ELSE IF res = "list"
           THEN /\ vpc' = [vpc EXCEPT ![v] = "crashed"]
                /\ vroom' = [vroom EXCEPT ![v] = res]
                /\ UNCHANGED <<rooms, everMember>>
           ELSE /\ vroom' = [vroom EXCEPT ![v] = res]
                /\ rooms' = RegAdd(rooms, res, v)
                /\ everMember' = [everMember EXCEPT ![v] = TRUE]
                /\ vpc' = [vpc EXCEPT ![v] = "loop"]
    /\ UNCHANGED <<consumed, nframes, fanout, delivered, owed, lateWrite,
                   wfail>>

\* a fan-out that does not skip the sender
SkipNoPeer(p, conn) == FALSE

\* a fan-out that stops at the first member it looks at
SkipAllPeers(p, conn) == TRUE

\* the test of line 103: if peer is conn: continue
SkipPeer(p, conn) == p = conn

\* handle_client lines 99-104, an audio frame arrives: the worker copies
\* the room's member set and will write the frame to every member it does
\* not skip
VRecvFrame(v) ==
    /\ vpc[v] = "loop"
    /\ peer[v] = "live"
    /\ nframes < MaxFrames
    /\ nframes' = nframes + 1
    /\ consumed' = [consumed EXCEPT ![v] = @ + 1]
    /\ LET targets == {p \in RegPeers(rooms, vroom[v]) : ~SkipPeer(p, v)}
       IN  /\ fanout' = [fanout EXCEPT ![v] = targets]
           /\ vpc' = [vpc EXCEPT ![v] =
                         IF targets = {} THEN "loop" ELSE "relay"]
    /\ owed' = [owed EXCEPT ![v] =
                    {b \in VConns \ {v} :
                        vroom[v] \in DOMAIN rooms /\ b \in rooms[vroom[v]]}]
    /\ UNCHANGED <<peer, vroom, rooms, delivered, sockOpen, lateWrite,
                   vghost>>
    /\ wfail' = [wfail EXCEPT ![v] = {}]

\* handle_client lines 99-101 and 106, end of stream: a packet of declared
\* length 0 (the peer stays connected) leaves the loop by the break of line
\* 101; so does EOF (the peer has closed), and a read that raises (the
\* connection broke) leaves it by the except of line 106 for the same
\* finally block
VRecvEnd(v, eof) ==
    /\ vpc[v] = "loop"
    /\ peer[v] = "live"
    /\ peer' = [peer EXCEPT ![v] = IF eof THEN "closed" ELSE @]
    /\ vpc' = [vpc EXCEPT ![v] = "cleanup"]
    /\ UNCHANGED <<vroom, rooms, consumed, nframes, fanout, delivered,
                   sockOpen, owed, lateWrite, vghost>>
    /\ wfail' = [wfail EXCEPT ![v] = {}]

\* the remote end shuts the connection down, or the connection breaks,
\* while the worker is not reading: the worker has not noticed yet
VPeerClose(v) ==
    /\ vpc[v] \in {"loop", "relay"}
    /\ peer[v] = "live"
    /\ peer' = [peer EXCEPT ![v] = "closed"]
    /\ UNCHANGED <<vpc, vroom, rooms, consumed, nframes, fanout, delivered,
                   sockOpen, owed, lateWrite, wfail, vghost>>

\* handle_client lines 99-101 and 106: the read of a connection whose
\* remote end is gone returns b"" or raises; either way the loop ends
VRecvClosed(v) ==
    /\ vpc[v] = "loop"
    /\ peer[v] # "live"
    /\ vpc' = [vpc EXCEPT ![v] = "cleanup"]
    /\ UNCHANGED <<peer, vroom, rooms, consumed, nframes, fanout, delivered,
                   sockOpen, owed, lateWrite, vghost>>
    /\ wfail' = [wfail EXCEPT ![v] = {}]

\* a fan-out that gives up, and ends the worker's loop, at a failed write
AfterWriteAbort(ok, rest) ==
    IF ~ok THEN "cleanup" ELSE IF rest = {} THEN "loop" ELSE "relay"

\* where the worker goes after one _send_packet of line 105: the result is
\* not looked at; the for loop goes on with the rest of the copy, and the
\* while loop with the next read
AfterWrite(ok, rest) == IF rest = {} THEN "loop" ELSE "relay"

\* handle_client line 105: _send_packet(peer, data) for one member of the
\* copy.  The write fails (and returns False) on a socket the server has
\* closed and may fail on a connection whose remote end is gone; the loop
\* goes on either way.
VRelay(v, p) ==
    /\ vpc[v] = "relay"
    /\ p \in fanout[v]
    /\ fanout' = [fanout EXCEPT ![v] = @ \ {p}]
    /\ \E ok \in {sockOpen[p]} \cup
                 (IF peer[p] # "live" THEN {FALSE} ELSE {}) :
          /\ vpc' = [vpc EXCEPT ![v] = AfterWrite(ok, fanout[v] \ {p})]
          /\ IF ok
             THEN /\ delivered' = [delivered EXCEPT ![p] =
                        Append(@, [from |-> v, seq |-> consumed[v]])]
                  /\ lateWrite' =
                        (lateWrite \/ p \notin RegPeers(rooms, vroom[v]))
                  /\ UNCHANGED wfail
             ELSE /\ wfail' = [wfail EXCEPT ![v] = @ \cup
                        {[to |-> p,
                          member |-> p \in RegPeers(rooms, vroom[v])]}]
                  /\ UNCHANGED <<delivered, lateWrite>>
    /\ owed' = [owed EXCEPT ![v] = @ \ {p}]
    /\ UNCHANGED <<peer, vroom, rooms, consumed, nframes, sockOpen, vghost>>

\* handle_client lines 108-110: if room: ROOMS.remove(room, conn)
VCleanup(v) ==
    /\ vpc[v] = "cleanup"
    /\ IF Truthy(vroom[v])
       THEN rooms' = RegRemove(rooms, vroom[v], v)
       ELSE UNCHANGED rooms
    /\ vpc' = [vpc EXCEPT ![v] = "close"]
    /\ UNCHANGED <<peer, vroom, consumed, nframes, fanout, delivered,
                   sockOpen, owed, lateWrite, wfail, vghost>>

\* handle_client lines 111-116: shutdown and close
VClose(v) ==
    /\ vpc[v] = "close"
    /\ sockOpen' = [sockOpen EXCEPT ![v] = FALSE]
    /\ vpc' = [vpc EXCEPT ![v] = "done"]
    /\ UNCHANGED <<peer, vroom, rooms, consumed, nframes, fanout, delivered,
                   owed, lateWrite, wfail, vghost>>


(***************************************************************************)
(*                       RADIO BROADCAST ENGINE                            *)
(***************************************************************************)
\* largest number of request_source calls in one run
MaxRequests == 2

\* audio files a caller can name; "missing.wav" does not exist
AudioFiles == {"a.wav", "b.wav", "c.wav", "missing.wav"}
ExistingFiles == {"a.wav", "b.wav", "c.wav"}

\* number of chunk_frames-sized chunks each existing file holds
WavChunks == 2

\* chunks wf.readframes returns before it returns b"": "c.wav" has a WAV
\* header and no frames
Chunks(f) == IF f = "c.wav" THEN 0 ELSE WavChunks

\* settings.RADIO_SAMPLE_RATE
RADIO_SAMPLE_RATE == 16000

\* wf.getframerate() of each existing file
WavRate(f) ==
    IF f = "a.wav" THEN 8000 ELSE IF f = "b.wav" THEN 44100 ELSE 16000

\* source values a caller can pass ("" stands for every falsy value, "fm"
\* for every string the engine does not know)
SourceArgs == {"auto", "mic", "wav", "dummy", "fm", ""}
\* audio_file values a caller can pass ("" stands for None)
FileArgs == AudioFiles \cup {""}

\* datagrams counted after a change request (the count stops there)
MaxLate == 2

VARIABLES
    rpc,        \* position of the broadcast thread in start and the routines
    has_sd,     \* HAS_SD: the capture library was imported
    has_device, \* sd.RawInputStream can open a capture device
    cfg_source, \* settings.RADIO_SOURCE
    source,     \* self.source
    audio_file, \* self.audio_file
    change_requested,   \* self._change_requested
    running,    \* self.running
    rsock,      \* self.sock: "none", "open" or "closed"
    snap,       \* start: the locals source and audio_file of the snapshot
    active,     \* streaming routines that were entered and did not return
    rate_state, \* stream_wav_file: rate_state, as the origin of the samples
                \* the resampler carries over ("None" for None)
    wavpos,     \* chunks read from the open WAV file since the last rewind
    dgram,      \* the last datagram sent: routine and origins of its bytes
    want,       \* source and file asked for by the request_source calls
    reqCount,   \* number of request_source calls made
    unlocked,   \* accesses to source, audio_file and _change_requested made
                \* without holding self._lock
    stopCalled, \* stop() was called from outside the broadcast thread
    late        \* datagrams the running routine sent since the flag was set

rstate == <<source, audio_file, change_requested, running, rsock>>
renv == <<has_sd, has_device, cfg_source>>
rghost == <<want, reqCount, unlocked, stopCalled, late>>
rvars == <<rpc, renv, rstate, snap, active, rate_state, wavpos, dgram, rghost>>

NoDgram == [routine |-> "none", origins |-> {}]

\* MulticastRadioServer.__init__ with
\* settings.RADIO_AUDIO_FILE = "a.wav"
RadioInit ==
    /\ rpc = "start"
    /\ has_sd \in BOOLEAN
    /\ has_device \in BOOLEAN
    /\ has_device => has_sd
    /\ cfg_source \in {"mic", "wav"}
    /\ source = cfg_source
    /\ audio_file = "a.wav"
    /\ change_requested = FALSE
    /\ running = FALSE
    /\ rsock = "none"
    /\ snap = [source |-> "", file |-> ""]
    /\ active = {}
    /\ rate_state = "None"
    /\ wavpos = 0
    /\ dgram = NoDgram
    /\ want = [source |-> source, file |-> audio_file]
    /\ reqCount = 0
    /\ unlocked = {}
    /\ stopCalled = FALSE
    /\ late = 0

\* start lines 41-50, called by start_multicast_server with
\* audio_file or settings.RADIO_AUDIO_FILE: the socket is made and
\* self.audio_file is assigned, outside the lock
StartFile ==
    /\ rpc = "start"
    /\ rsock' = "open"
    /\ audio_file' = "a.wav"
    /\ unlocked' = unlocked \cup {"start writes audio_file"}
    /\ rpc' = "start_source"
    /\ UNCHANGED <<renv, source, change_requested, running, snap, active,
                   rate_state, wavpos, dgram, want, reqCount, stopCalled,
                   late>>

\* start lines 51-54: self.source = source or self.source with
\* source = settings.RADIO_SOURCE, outside the lock, then
\* self.running = True
StartSource ==
    /\ rpc = "start_source"
    /\ source' = cfg_source
    /\ unlocked' = unlocked \cup {"start writes source"}
    /\ running' = TRUE
    /\ rpc' = "snapshot"
    /\ UNCHANGED <<renv, audio_file, change_requested, rsock, snap, active,
                   rate_state, wavpos, dgram, want, reqCount, stopCalled,
                   late>>

\* a decision that resolves auto to wav whatever the capture library
DecideAutoWav(src, file, sd) ==
    LET s1 == IF src = "auto" THEN "wav" ELSE src
    IN  IF s1 = "mic" THEN (IF sd THEN "mic" ELSE "dummy")
        ELSE IF s1 = "wav"
             THEN (IF file \in ExistingFiles THEN "wav" ELSE "dummy")
        ELSE "dummy"

\* start lines 62-80: the routine a snapshot selects
Decide(src, file, sd) ==
    LET s1 == IF src = "auto" THEN (IF sd THEN "mic" ELSE "wav") ELSE src
    IN  IF s1 = "mic" THEN (IF sd THEN "mic" ELSE "dummy")
        ELSE IF s1 = "wav"
             THEN (IF file \in ExistingFiles THEN "wav" ELSE "dummy")
        ELSE "dummy"

\* a resampler state that outlives the activation
KeepRateState(prev) == prev

\* stream_wav_file line 104: rate_state = None on every activation
FreshRateState(prev) == "None"

\* start lines 56-80: the locked snapshot clears the flag, the decision
\* enters one streaming routine (stream_microphone opens the device first)
Snapshot ==
    /\ rpc = "snapshot"
    /\ running
    /\ snap' = [source |-> source, file |-> audio_file]
    /\ change_requested' = FALSE
    /\ late' = 0
    /\ LET r == Decide(source, audio_file, has_sd)
       IN  /\ active' = active \cup {r}
           /\ rpc' = IF r = "mic" THEN "mic_open" ELSE r
           /\ IF r = "wav"
              THEN /\ rate_state' = FreshRateState(rate_state)
                   /\ wavpos' = 0
              ELSE UNCHANGED <<rate_state, wavpos>>
    /\ UNCHANGED <<renv, source, audio_file, running, rsock, dgram, want,
                   reqCount, unlocked, stopCalled>>

\* start lines 56, 82-88: with self.running false the loop is left and the
\* finally block calls self.stop()
Exit ==
    /\ rpc = "snapshot"
    /\ ~running
    /\ rpc' = "stopped"
    /\ rsock' = "closed"
    /\ UNCHANGED <<renv, source, audio_file, change_requested, running, snap,
                   active, rate_state, wavpos, dgram, rghost>>

\* an exception of a routine that leaves start through its handler of
\* line 85
RoutineErrorPropagates(pc) == "stopped"

\* stream_wav_file lines 152-153, stream_microphone lines 183-184,
\* stream_dummy_audio lines 206-207: the routine catches the exception,
\* prints it and returns to line 82 of start
RoutineError(pc) == "snapshot"

\* stream_microphone lines 165-172: the capture stream is opened; without a
\* device sd.RawInputStream raises
MicOpen ==
    /\ rpc = "mic_open"
    /\ IF has_device
       THEN /\ rpc' = "mic"
            /\ UNCHANGED active
       ELSE /\ rpc' = RoutineError(rpc)
            /\ active' = active \ {"mic"}
    /\ UNCHANGED <<renv, rstate, snap, rate_state, wavpos, dgram, rghost>>

\* a routine that never looks at the flag
ChangeSeenNever(flag) == FALSE

\* lines 110, 175, 192: if self._change_requested
ChangeSeen(flag) == flag

\* the top of a routine's loop: while self.running, and
\* if self._change_requested: return (to line 82 of start); both fields are
\* read without the lock
RoutineCheck ==
    /\ rpc \in {"mic", "wav", "dummy"}
    /\ IF ~running \/ ChangeSeen(change_requested)
       THEN /\ active' = active \ {rpc}
            /\ rpc' = "snapshot"
       ELSE /\ rpc' = IF rpc = "mic" THEN "mic_send"
                      ELSE IF rpc = "wav" THEN "wav_send"
                      ELSE "dummy_send"
            /\ UNCHANGED active
    /\ unlocked' = IF running
                   THEN unlocked \cup {"routine reads _change_requested"}
                   ELSE unlocked
    /\ UNCHANGED <<renv, rstate, snap, rate_state, wavpos, dgram, want,
                   reqCount, stopCalled, late>>

\* outcomes of self.sock.sendto: it raises on a closed socket, and may
\* raise on an open one (network unreachable)
SendOutcomes == IF rsock = "open" THEN BOOLEAN ELSE {FALSE}

\* datagrams sent since the flag was set, counting this one
Late == IF change_requested
        THEN (IF late < MaxLate THEN late + 1 ELSE late)
        ELSE 0

\* stream_wav_file lines 112-153: one chunk is read, normalised and sent,
\* or the file is rewound at its end.  ratecv runs only when the file's rate
\* differs from the target; its output draws on the chunk and on the
\* samples its state carries.  An exception (wave.open, readframes, audioop,
\* sendto) ends the routine.
WavSend(ok) ==
    /\ rpc = "wav_send"
    /\ IF ~ok
       THEN /\ rpc' = RoutineError(rpc)
            /\ active' = active \ {"wav"}
            /\ UNCHANGED <<wavpos, rate_state, dgram, late>>
       ELSE /\ rpc' = "wav"
            /\ UNCHANGED active
            /\ IF wavpos >= Chunks(snap.file)
               THEN /\ wavpos' = 0
                    /\ UNCHANGED <<rate_state, dgram, late>>
               ELSE /\ wavpos' = wavpos + 1
                    /\ late' = Late
                    /\ IF WavRate(snap.file) # RADIO_SAMPLE_RATE
                       THEN /\ dgram' = [routine |-> "wav",
                                         origins |-> {snap.file} \cup
                                             (IF rate_state = "None" THEN {}
                                              ELSE {rate_state})]
                            /\ rate_state' = snap.file
                       ELSE /\ dgram' = [routine |-> "wav",
                                         origins |-> {snap.file}]
                            /\ UNCHANGED rate_state
    /\ UNCHANGED <<renv, rstate, snap, want, reqCount, unlocked, stopCalled>>

\* stream_microphone lines 177-184: one captured block is sent; an
\* exception (stream.read, sendto) ends the routine
MicSend(ok) ==
    /\ rpc = "mic_send"
    /\ IF ok
       THEN /\ rpc' = "mic"
            /\ dgram' = [routine |-> "mic", origins |-> {"microphone"}]
            /\ late' = Late
            /\ UNCHANGED active
       ELSE /\ rpc' = RoutineError(rpc)
            /\ active' = active \ {"mic"}
            /\ UNCHANGED <<dgram, late>>
    /\ UNCHANGED <<renv, rstate, snap, rate_state, wavpos, want, reqCount,
                   unlocked, stopCalled>>

\* stream_dummy_audio lines 195-207: one zero-filled buffer is sent; an
\* exception of sendto ends the routine
DummySend(ok) ==
    /\ rpc = "dummy_send"
    /\ IF ok
       THEN /\ rpc' = "dummy"
            /\ dgram' = [routine |-> "dummy", origins |-> {"zeros"}]
            /\ late' = Late
            /\ UNCHANGED active
       ELSE /\ rpc' = RoutineError(rpc)
            /\ active' = active \ {"dummy"}
            /\ UNCHANGED <<dgram, late>>
    /\ UNCHANGED <<renv, rstate, snap, rate_state, wavpos, want, reqCount,
                   unlocked, stopCalled>>

\* request_source: under the lock, falsy arguments leave the field alone
RequestSource(src, file) ==
    /\ reqCount < MaxRequests
    /\ reqCount' = reqCount + 1
    /\ audio_file' = IF file # "" THEN file ELSE audio_file
    /\ source' = IF src # "" THEN src ELSE source
    /\ change_requested' = TRUE
    /\ want' = [source |-> IF src # "" THEN src ELSE want.source,
                file |-> IF file # "" THEN file ELSE want.file]
    /\ UNCHANGED <<rpc, renv, running, rsock, snap, active, rate_state,
                   wavpos, dgram, unlocked, stopCalled, late>>

\* stop, called by another thread while the engine runs
Stop ==
    /\ running
    /\ running' = FALSE
    /\ rsock' = "closed"
    /\ stopCalled' = TRUE
    /\ UNCHANGED <<rpc, renv, source, audio_file, change_requested, snap,
                   active, rate_state, wavpos, dgram, want, reqCount,
                   unlocked, late>>

(***************************************************************************)
(*                     VOICE FRAMING (length-prefixed packets)             *)
(***************************************************************************)
\* longest payload a peer sends, and the most packets it sends
MaxPayload == 2
MaxPackets == 2

\* byte values of the payloads
PayloadBytes == {0, 1}

\* the payloads a peer hands to _send_packet, the empty one included
Payloads == UNION {[1..n -> PayloadBytes] : n \in 0..MaxPayload}

\* struct.pack("!I", n): four bytes, most significant first
Pack32(n) ==
    <<(n \div 16777216) % 256, (n \div 65536) % 256, (n \div 256) % 256,
      n % 256>>

\* the four bytes read least significant first
Unpack32LittleEndian(h) ==
    h[4] * 16777216 + h[3] * 65536 + h[2] * 256 + h[1]

\* struct.unpack("!I", header)[0]
Unpack32(h) == h[1] * 16777216 + h[2] * 65536 + h[3] * 256 + h[4]

VARIABLES
    wire,       \* the bytes that arrive on the connection, in order
    wclosed,    \* the peer has closed: end of stream follows the bytes
    rpos,       \* number of bytes the worker has consumed
    sentPkts,   \* the payloads the peer passed to _send_packet, in order
    results,    \* what each _recv_packet call of the worker returned
    relayedPkts,\* the payloads the worker went on to relay
    wended      \* the worker has left its receive loop

fvars == <<wire, wclosed, rpos, sentPkts, results, relayedPkts, wended>>

FramingInit ==
    /\ wire = <<>>
    /\ wclosed = FALSE
    /\ rpos = 0
    /\ sentPkts = <<>>
    /\ results = <<>>
    /\ relayedPkts = <<>>
    /\ wended = FALSE

\* _send_packet lines 41-46: the length prefix, then the payload
SendPacket(p) ==
    /\ ~wclosed
    /\ Len(sentPkts) < MaxPackets
    /\ wire' = wire \o Pack32(Len(p)) \o p
    /\ sentPkts' = Append(sentPkts, p)
    /\ UNCHANGED <<wclosed, rpos, results, relayedPkts, wended>>

\* the peer's connection ends after n bytes have arrived; what it wrote
\* beyond them is lost
PeerEnds(n) ==
    /\ ~wclosed
    /\ n >= rpos
    /\ n <= Len(wire)
    /\ wire' = SubSeq(wire, 1, n)
    /\ wclosed' = TRUE
    /\ UNCHANGED <<rpos, sentPkts, results, relayedPkts, wended>>

\* _recv_exact lines 21-28 at position pos: size bytes if they arrive;
\* b"" at end of stream, with the bytes before it consumed; else the call
\* blocks
RecvExact(pos, size) ==
    IF Len(wire) - pos >= size
    THEN [state |-> "done", data |-> SubSeq(wire, pos + 1, pos + size),
          pos |-> pos + size]
    ELSE IF wclosed
    THEN [state |-> "done", data |-> <<>>, pos |-> Len(wire)]
    ELSE [state |-> "blocked", data |-> <<>>, pos |-> pos]

\* _recv_packet lines 31-38 at position pos
RecvPacketAt(pos) ==
    LET header == RecvExact(pos, 4)
    IN  IF header.state = "blocked" \/ header.data = <<>>
        THEN header
        ELSE IF Unpack32(header.data) <= 0
        THEN [header EXCEPT !.data = <<>>]
        ELSE RecvExact(header.pos, Unpack32(header.data))

\* handle_client lines 98-105: one _recv_packet; an empty result leaves the
\* loop, any other is relayed
WorkerRecv ==
    /\ ~wended
    /\ LET r == RecvPacketAt(rpos)
       IN  /\ r.state = "done"
           /\ rpos' = r.pos
           /\ results' = Append(results, r.data)
           /\ IF r.data = <<>>
              THEN /\ wended' = TRUE
                   /\ UNCHANGED relayedPkts
              ELSE /\ relayedPkts' = Append(relayedPkts, r.data)
                   /\ UNCHANGED wended
    /\ UNCHANGED <<wire, wclosed, sentPkts>>

(***************************************************************************)
(*                  RADIO ENTRY POINT (start_multicast_server)             *)
(***************************************************************************)
\* invocations of start_multicast_server, each in a thread of its own
Invocations == {1, 2}

\* source values set_radio_source is called with (admin.py lines 177, 195)
SwitchArgs == {"wav"}

VARIABLES
    eng,            \* the MulticastRadioServer each invocation made: the
                    \* position of its thread, its source, its flag, and
                    \* whether it has sent a datagram
    radio_server,   \* _RADIO_SERVER: 0 for None, else the invocation whose
                    \* engine it refers to
    has_audio_file, \* the settings object has the attribute
                    \* RADIO_AUDIO_FILE
    set_result      \* what the last call of an admin endpoint to
                    \* set_radio_source returned ("raised": the endpoint
                    \* failed before the call)

evars == <<eng, radio_server, has_audio_file, set_result>>

NoEngine == [pc |-> "idle", source |-> "mic", flag |-> FALSE, sent |-> FALSE]

\* the Settings class of config.py defines no RADIO_AUDIO_FILE
EntryInit ==
    /\ eng = [i \in Invocations |-> NoEngine]
    /\ radio_server = 0
    /\ has_audio_file = FALSE
    /\ set_result = "none"

\* start_multicast_server lines 229-231: a new engine is made and stored in
\* _RADIO_SERVER, whatever _RADIO_SERVER held.  The constructor reads
\* settings.RADIO_AUDIO_FILE (line 27): without the attribute it raises
\* AttributeError, which ends the thread before line 231.
Invoke(i) ==
    /\ eng[i].pc = "idle"
    /\ IF has_audio_file
       THEN /\ eng' = [eng EXCEPT ![i].pc = "created"]
            /\ radio_server' = i
       ELSE /\ eng' = [eng EXCEPT ![i].pc = "failed"]
            /\ UNCHANGED radio_server
    /\ UNCHANGED <<has_audio_file, set_result>>

\* start_multicast_server line 232, start lines 39-60: the engine's thread
\* enters the outer loop and a streaming routine
EngineStart(i) ==
    /\ eng[i].pc = "created"
    /\ eng' = [eng EXCEPT ![i].pc = "streaming", ![i].flag = FALSE]
    /\ UNCHANGED <<radio_server, has_audio_file, set_result>>

\* the streaming routines: one datagram is sent to the multicast group, or
\* the routine returns on the flag and the outer loop enters the next one
EngineStream(i) ==
    /\ eng[i].pc = "streaming"
    /\ IF eng[i].flag
       THEN eng' = [eng EXCEPT ![i].flag = FALSE, ![i].sent = FALSE]
       ELSE /\ ~eng[i].sent
            /\ eng' = [eng EXCEPT ![i].sent = TRUE]
    /\ UNCHANGED <<radio_server, has_audio_file, set_result>>

\* set_radio_source lines 235-239: the request goes to the engine
\* _RADIO_SERVER refers to, if any, and the result is True; else False
SetRadioSource(src) ==
    /\ IF radio_server # 0
       THEN /\ eng' = [eng EXCEPT ![radio_server].source = src,
                                  ![radio_server].flag = TRUE]
            /\ set_result' = "True"
       ELSE /\ UNCHANGED eng
            /\ set_result' = "False"
    /\ UNCHANGED radio_server

\* admin.py lines 175-181, upload_radio_file: the attribute is set on the
\* settings object, then set_radio_source is called
UploadRadioFile(src) ==
    /\ has_audio_file' = TRUE
    /\ SetRadioSource(src)

\* admin.py lines 194-199, start_radio_broadcast: reading
\* settings.RADIO_AUDIO_FILE raises when the attribute is missing
StartRadioBroadcast(src) ==
    /\ IF has_audio_file
       THEN SetRadioSource(src)
       ELSE /\ set_result' = "raised"
            /\ UNCHANGED <<eng, radio_server>>
    /\ UNCHANGED has_audio_file

\* stop lines 209-214, then start lines 82-88: the engine's thread ends
EngineStop(i) ==
    /\ eng[i].pc = "streaming"
    /\ eng' = [eng EXCEPT ![i].pc = "stopped"]
    /\ UNCHANGED <<radio_server, has_audio_file, set_result>>

(***************************************************************************)
(*            VOICE RELAY: WRITES OF SEVERAL WORKERS TO ONE PEER           *)
(***************************************************************************)
\* workers of one room that relay a frame to the same receiver
Senders == {1, 2}

\* the frame sender s relays: n payload bytes, distinct across senders
FrameOf(s, n) == [i \in 1..n |-> s * 10 + i]

VARIABLES
    rxwire,     \* the bytes written to the receiver's socket, in order
    handed,     \* per sender, the payload it passed to _send_packet
    outpkt,     \* per sender, the bytes its sendall call has to write
    outpos      \* per sender, how many of them the socket has taken

wvars == <<rxwire, handed, outpkt, outpos>>

RelayWriteInit ==
    /\ rxwire = <<>>
    /\ handed = [s \in Senders |-> <<>>]
    /\ outpkt = [s \in Senders |-> <<>>]
    /\ outpos = [s \in Senders |-> 0]

\* handle_client lines 102-105 and _send_packet lines 41-43: the worker of
\* sender s calls _send_packet(peer, data) for the receiver; the header and
\* the payload are joined and passed to conn.sendall.  No lock is taken on
\* the receiver's socket.
SendPacketTo(s, n) ==
    /\ handed[s] = <<>>
    /\ handed' = [handed EXCEPT ![s] = FrameOf(s, n)]
    /\ outpkt' = [outpkt EXCEPT ![s] = Pack32(n) \o FrameOf(s, n)]
    /\ outpos' = [outpos EXCEPT ![s] = 0]
    /\ UNCHANGED rxwire

\* conn.sendall (line 43): the bytes go to the socket in one or more send
\* calls, each taking between one byte and all that is left; the
\* interpreter lock is released around each call, and a call made by
\* another thread on the same socket can come in between
SendSome(s, k) ==
    /\ outpkt[s] # <<>>
    /\ k >= 1
    /\ outpos[s] + k <= Len(outpkt[s])
    /\ rxwire' = rxwire \o SubSeq(outpkt[s], outpos[s] + 1, outpos[s] + k)
    /\ outpos' = [outpos EXCEPT ![s] = @ + k]
    /\ UNCHANGED <<handed, outpkt>>

\* _send_packet of sender s has returned True
SendReturned(s) == outpkt[s] # <<>> /\ outpos[s] = Len(outpkt[s])

(***************************************************************************)
(*              WAV CHUNK NORMALISATION (stream_wav_file)                  *)
(***************************************************************************)
\* sample widths (bytes), channel counts and frame rates of the WAV files
\* and of the RADIO_SAMPLE_WIDTH, RADIO_CHANNELS, RADIO_SAMPLE_RATE settings
SampleWidths == {1, 2}
ChannelCounts == {1, 2, 4}
FrameRates == {8000, 16000}
Formats == [width : SampleWidths, channels : ChannelCounts, rate : FrameRates]

VARIABLES
    npc,        \* position of the routine in the body of its loop
    wavfmt,     \* wf.getsampwidth(), wf.getnchannels(), wf.getframerate()
    target,     \* target_width, target_channels, target_rate
    outfmt,     \* out_width, out_channels, out_rate
    bytesfmt    \* the format the bytes of out are in

nvars == <<npc, wavfmt, target, outfmt, bytesfmt>>

NormInit ==
    /\ npc = "read"
    /\ wavfmt \in Formats
    /\ target \in Formats
    /\ outfmt = wavfmt
    /\ bytesfmt = wavfmt

\* lines 112, 119-122: a chunk is read; out is the chunk as the file holds
\* it, and out_width, out_channels, out_rate are the file's
ReadChunk ==
    /\ npc \in {"read", "sent"}
    /\ outfmt' = wavfmt
    /\ bytesfmt' = wavfmt
    /\ npc' = "width"
    /\ UNCHANGED <<wavfmt, target>>

\* lines 124-126: audioop.lin2lin converts the samples to the target width
NormWidth ==
    /\ npc = "width"
    /\ IF outfmt.width # target.width
       THEN /\ bytesfmt' = [bytesfmt EXCEPT !.width = target.width]
            /\ outfmt' = [outfmt EXCEPT !.width = target.width]
       ELSE UNCHANGED <<outfmt, bytesfmt>>
    /\ npc' = "channels"
    /\ UNCHANGED <<wavfmt, target>>

\* audioop.tomono: the samples are taken in pairs (left, right) and each
\* pair becomes one sample
ToMono(channels) == channels \div 2

\* lines 128-131: when the channel counts differ, a chunk of more than one
\* channel goes through audioop.tomono and a chunk of one channel is left
\* as it is; out_channels becomes the target in both cases
NormChannels ==
    /\ npc = "channels"
    /\ IF outfmt.channels # target.channels
       THEN /\ bytesfmt' = [bytesfmt EXCEPT !.channels =
                               IF outfmt.channels > 1 THEN ToMono(@) ELSE @]
            /\ outfmt' = [outfmt EXCEPT !.channels = target.channels]
       ELSE UNCHANGED <<outfmt, bytesfmt>>
    /\ npc' = "rate"
    /\ UNCHANGED <<wavfmt, target>>

\* lines 133-142: audioop.ratecv resamples from out_rate to the target rate
NormRate ==
    /\ npc = "rate"
    /\ IF outfmt.rate # target.rate
       THEN /\ bytesfmt' = [bytesfmt EXCEPT !.rate = target.rate]
            /\ outfmt' = [outfmt EXCEPT !.rate = target.rate]
       ELSE UNCHANGED <<outfmt, bytesfmt>>
    /\ npc' = "send"
    /\ UNCHANGED <<wavfmt, target>>

\* lines 144-151: out is sent as one datagram, and the sleep is computed
\* from out_width, out_channels and out_rate
SendChunkOut ==
    /\ npc = "send"
    /\ npc' = "sent"
    /\ UNCHANGED <<wavfmt, target, outfmt, bytesfmt>>

(***************************************************************************)
(*                 HTTP STREAM CONTROL (api/streaming.py)                  *)
(***************************************************************************)
\* requests to /start-stream and /stop-stream; the endpoints are plain
\* functions, which the framework runs in worker threads
StreamReqs == {1, 2, 3}

VARIABLES
    is_streaming,   \* streaming_state["is_streaming"]
    stop_signal,    \* streaming_state["stop_signal"]
    stream_thread,  \* stream_thread: 0 for None, else the request that made
                    \* the thread
    sreq,           \* per request, the endpoint it calls and its position
    sender          \* per request, the run_multicast_sender thread it
                    \* started: "none", "loop", "exiting" or "ended"

svars == <<is_streaming, stop_signal, stream_thread, sreq, sender>>

StreamInit ==
    /\ is_streaming = FALSE
    /\ stop_signal = FALSE
    /\ stream_thread = 0
    /\ sreq = [r \in StreamReqs |-> [kind |-> "none", pc |-> "idle"]]
    /\ sender = [r \in StreamReqs |-> "none"]

\* a request arrives and its handler starts
BeginRequest(r, kind) ==
    /\ sreq[r].pc = "idle"
    /\ sreq' = [sreq EXCEPT ![r] = [kind |-> kind, pc |-> "check"]]
    /\ UNCHANGED <<is_streaming, stop_signal, stream_thread, sender>>

\* start_stream lines 134-143: HTTP 400 while is_streaming is set, HTTP 404
\* when the media row or its file is missing
StartCheck(r, found) ==
    /\ sreq[r].kind = "start" /\ sreq[r].pc = "check"
    /\ sreq' = [sreq EXCEPT ![r].pc =
                   IF is_streaming THEN "refused"
                   ELSE IF ~found THEN "notfound"
                   ELSE "set_streaming"]
    /\ UNCHANGED <<is_streaming, stop_signal, stream_thread, sender>>

\* start_stream lines 146-149
StartSetStreaming(r) ==
    /\ sreq[r].pc = "set_streaming"
    /\ is_streaming' = TRUE
    /\ sreq' = [sreq EXCEPT ![r].pc = "clear_stop"]
    /\ UNCHANGED <<stop_signal, stream_thread, sender>>

\* start_stream line 150
StartClearStop(r) ==
    /\ sreq[r].pc = "clear_stop"
    /\ stop_signal' = FALSE
    /\ sreq' = [sreq EXCEPT ![r].pc = "spawn"]
    /\ UNCHANGED <<is_streaming, stream_thread, sender>>

\* start_stream lines 153-157: the sender thread is made and started
StartSpawn(r) ==
    /\ sreq[r].pc = "spawn"
    /\ stream_thread' = r
    /\ sender' = [sender EXCEPT ![r] = "loop"]
    /\ sreq' = [sreq EXCEPT ![r].pc = "done"]
    /\ UNCHANGED <<is_streaming, stop_signal>>

\* stop_stream lines 162-163
StopCheck(r) ==
    /\ sreq[r].kind = "stop" /\ sreq[r].pc = "check"
    /\ sreq' = [sreq EXCEPT ![r].pc =
                   IF is_streaming THEN "signal" ELSE "done"]
    /\ UNCHANGED <<is_streaming, stop_signal, stream_thread, sender>>

\* stop_stream line 166
StopSignal(r) ==
    /\ sreq[r].pc = "signal"
    /\ stop_signal' = TRUE
    /\ sreq' = [sreq EXCEPT ![r].pc = "join"]
    /\ UNCHANGED <<is_streaming, stream_thread, sender>>

\* stop_stream lines 169-170: join(timeout=2.0) returns when the thread
\* stream_thread refers to has ended, or when the timeout has passed
StopJoin(r) ==
    /\ sreq[r].pc = "join"
    /\ sreq' = [sreq EXCEPT ![r].pc = "reset"]
    /\ UNCHANGED <<is_streaming, stop_signal, stream_thread, sender>>

\* stop_stream lines 173-176
StopReset(r) ==
    /\ sreq[r].pc = "reset"
    /\ is_streaming' = FALSE
    /\ sreq' = [sreq EXCEPT ![r].pc = "done"]
    /\ UNCHANGED <<stop_signal, stream_thread, sender>>

\* run_multicast_sender line 58: the loop test finds stop_signal set (with
\* stop_signal clear the thread sleeps a second and tests again)
SenderSeesStop(t) ==
    /\ sender[t] = "loop"
    /\ stop_signal
    /\ sender' = [sender EXCEPT ![t] = "exiting"]
    /\ UNCHANGED <<is_streaming, stop_signal, stream_thread, sreq>>

\* run_multicast_sender lines 63-65: is_streaming is cleared, the thread ends
SenderExit(t) ==
    /\ sender[t] = "exiting"
    /\ is_streaming' = FALSE
    /\ sender' = [sender EXCEPT ![t] = "ended"]
    /\ UNCHANGED <<stop_signal, stream_thread, sreq>>

(***************************************************************************)
(*                   FILE-TRANSFER LISTENERS (plain, TLS)                  *)
(***************************************************************************)
\* the two listeners of the file-transfer engine: start_tcp_server(False)
\* and start_tcp_server(True)
Listeners == {"plain", "tls"}

\* connections a listener accepts
LConns == {1, 2}

\* what context.wrap_socket does with an accepted connection: the
\* handshake succeeds, fails with ssl.SSLError, or fails with another
\* OSError (the peer resets the connection during the handshake)
Handshakes == {"ok", "sslerror", "oserror"}

VARIABLES
    certs,      \* the files SSL_CERT_FILE and SSL_KEY_FILE both exist
    started,    \* how the process was started: "none", "startup_event"
                \* (app/main.py) or "main" (python -m app.network.tcp_server)
    lpc,        \* position of each listener thread in start_tcp_server
    bound,      \* the listener's socket is bound to its port
    everBound,  \* the listener's port has been bound at some time
    lconn,      \* each connection of each listener: "none", "accepted",
                \* "worker" (handle_client runs on it) or "closed"
    wrapping,   \* the connection the TLS listener is wrapping (0: none)
    hsfailed,   \* connections whose TLS handshake failed
    dispatched  \* connections of each listener given to a worker thread

lvars == <<certs, started, lpc, bound, everBound, lconn, wrapping, hsfailed,
           dispatched>>

ListenerInit ==
    /\ certs \in BOOLEAN
    /\ started = "none"
    /\ lpc = [l \in Listeners |-> "off"]
    /\ bound = [l \in Listeners |-> FALSE]
    /\ everBound = [l \in Listeners |-> FALSE]
    /\ lconn = [l \in Listeners |-> [c \in LConns |-> "none"]]
    /\ wrapping = 0
    /\ hsfailed = {}
    /\ dispatched = [l \in Listeners |-> {}]

\* app/main.py lines 92-113: the plaintext listener thread is started; the
\* TLS listener thread is started only if both files exist
StartupEvent ==
    /\ started = "none"
    /\ started' = "startup_event"
    /\ lpc' = [l \in Listeners |->
                  IF l = "plain" \/ certs THEN "bind" ELSE "off"]
    /\ UNCHANGED <<certs, bound, everBound, lconn, wrapping, hsfailed,
                   dispatched>>

\* tcp_server.py lines 178-186: the module run as a program starts one
\* listener, with TLS if --ssl is given
Main(use_ssl) ==
    /\ started = "none"
    /\ started' = "main"
    /\ lpc' = [lpc EXCEPT ![IF use_ssl THEN "tls" ELSE "plain"] = "bind"]
    /\ UNCHANGED <<certs, bound, everBound, lconn, wrapping, hsfailed,
                   dispatched>>

\* start_tcp_server lines 139-142: socket, bind, listen
Bind(l) ==
    /\ lpc[l] = "bind"
    /\ bound' = [bound EXCEPT ![l] = TRUE]
    /\ everBound' = [everBound EXCEPT ![l] = TRUE]
    /\ lpc' = [lpc EXCEPT ![l] = IF l = "tls" THEN "check" ELSE "accept"]
    /\ UNCHANGED <<certs, started, lconn, wrapping, hsfailed, dispatched>>

\* start_tcp_server lines 145-152: with use_ssl, the socket is closed and
\* the function returns if a file is missing; else the context is made
CheckCerts ==
    /\ lpc["tls"] = "check"
    /\ IF certs
       THEN /\ lpc' = [lpc EXCEPT !["tls"] = "accept"]
            /\ UNCHANGED bound
       ELSE /\ lpc' = [lpc EXCEPT !["tls"] = "returned"]
            /\ bound' = [bound EXCEPT !["tls"] = FALSE]
    /\ UNCHANGED <<certs, started, everBound, lconn, wrapping, hsfailed,
                   dispatched>>

\* start_tcp_server lines 158-169: sock.accept(); the plaintext listener
\* starts the worker thread, the TLS listener wraps the socket first
LAccept(l, c) ==
    /\ lpc[l] = "accept"
    /\ lconn[l][c] = "none"
    /\ IF l = "tls"
       THEN /\ lconn' = [lconn EXCEPT ![l][c] = "accepted"]
            /\ wrapping' = c
            /\ lpc' = [lpc EXCEPT ![l] = "handshake"]
            /\ UNCHANGED dispatched
       ELSE /\ lconn' = [lconn EXCEPT ![l][c] = "worker"]
            /\ dispatched' = [dispatched EXCEPT ![l] = @ \cup {c}]
            /\ UNCHANGED <<wrapping, lpc>>
    /\ UNCHANGED <<certs, started, bound, everBound, hsfailed>>

\* start_tcp_server lines 160-175: after wrap_socket the accept loop starts
\* the worker, or closes the connection and continues (except ssl.SSLError,
\* line 163), or is left through the handler of line 172 and the finally
\* block, which closes the listening socket
HandshakeResult(h) ==
    IF h = "ok" THEN "dispatch"
    ELSE IF h = "sslerror" THEN "continue"
    ELSE "stop"

\* start_tcp_server lines 160-169: the TLS handshake of one connection,
\* made in the accept loop
Handshake(h) ==
    /\ lpc["tls"] = "handshake"
    /\ LET c == wrapping
           res == HandshakeResult(h)
       IN  /\ hsfailed' = IF h = "ok" THEN hsfailed ELSE hsfailed \cup {c}
           /\ lconn' = [lconn EXCEPT !["tls"][c] =
                            IF res = "dispatch" THEN "worker"
                            ELSE IF res = "continue" THEN "closed"
                            ELSE @]
           /\ dispatched' = [dispatched EXCEPT !["tls"] =
                                 IF res = "dispatch" THEN @ \cup {c} ELSE @]
           /\ lpc' = [lpc EXCEPT !["tls"] =
                          IF res = "stop" THEN "stopped" ELSE "accept"]
           /\ bound' = [bound EXCEPT !["tls"] =
                            IF res = "stop" THEN FALSE ELSE @]
    /\ wrapping' = 0
    /\ UNCHANGED <<certs, started, everBound>>

\* handle_client lines 116-122: a worker ends and closes its connection
WorkerEnd(l, c) ==
    /\ lconn[l][c] = "worker"
    /\ lconn' = [lconn EXCEPT ![l][c] = "closed"]
    /\ UNCHANGED <<certs, started, lpc, bound, everBound, wrapping, hsfailed,
                   dispatched>>

(***************************************************************************)
(*                          SPECIFICATIONS                                 *)
(***************************************************************************)
\* the relay writes, the chunk normalisation and the stream control
xvars == <<wvars, nvars, svars>>

vars == <<ftvars, vvars, rvars, lvars, evars, fvars, xvars>>

\* one state of each engine, for the specifications of the other engines
FTQuiet == FTInit /\ disk = [p \in Entries |-> Absent]
NormQuiet ==
    /\ NormInit
    /\ wavfmt = [width |-> 2, channels |-> 1, rate |-> 16000]
    /\ target = wavfmt
XQuiet == RelayWriteInit /\ NormQuiet /\ StreamInit
RadioQuiet == RadioInit /\ ~has_sd /\ ~has_device /\ cfg_source = "mic"
ListenerQuiet == ListenerInit /\ certs

\* the file-transfer server: the accept loop and one worker per connection
FTOnly == UNCHANGED <<vvars, rvars, lvars, evars, fvars, xvars>>

NextFT ==
    \E c \in Conns :
        \/ Accept(c) /\ FTOnly
        \/ RecvUpload(c) /\ FTOnly
        \/ OpenUpload(c) /\ FTOnly
        \/ RecvChunk(c) /\ FTOnly
        \/ CloseUpload(c) /\ FTOnly
        \/ UploadStatus(c) /\ FTOnly
        \/ RecvDownload(c) /\ FTOnly
        \/ WaitReady(c) /\ FTOnly
        \/ SendChunk(c) /\ FTOnly
        \/ RecvList(c) /\ FTOnly
        \/ RecvUnknown(c) /\ FTOnly
        \/ RecvEmpty(c) /\ FTOnly
        \/ RecvNonObject(c) /\ FTOnly
        \/ Except(c) /\ FTOnly
        \/ Finally(c) /\ FTOnly

InitFT == FTInit /\ VoiceInit /\ RadioQuiet /\ ListenerQuiet /\ EntryInit /\ FramingInit /\ XQuiet

SpecFT == InitFT /\ [][NextFT]_vars

\* the file-transfer engine serving sessions whose filenames hold ".."
\* components or are absolute
NextFTEscape ==
    \E c \in Conns :
        \/ AcceptFrom(c, EscapeScripts) /\ FTOnly
        \/ RecvUpload(c) /\ FTOnly
        \/ OpenUpload(c) /\ FTOnly
        \/ RecvChunk(c) /\ FTOnly
        \/ CloseUpload(c) /\ FTOnly
        \/ UploadStatus(c) /\ FTOnly
        \/ RecvDownload(c) /\ FTOnly
        \/ WaitReady(c) /\ FTOnly
        \/ SendChunk(c) /\ FTOnly
        \/ RecvList(c) /\ FTOnly
        \/ RecvUnknown(c) /\ FTOnly
        \/ RecvEmpty(c) /\ FTOnly
        \/ RecvNonObject(c) /\ FTOnly
        \/ Except(c) /\ FTOnly
        \/ Finally(c) /\ FTOnly

SpecFTEscape == InitFT /\ [][NextFTEscape]_vars

\* the file-transfer engine serving peers that send more payload than they
\* declared
NextFTExcess ==
    \E c \in Conns :
        \/ AcceptFrom(c, ExcessScripts) /\ FTOnly
        \/ RecvUpload(c) /\ FTOnly
        \/ OpenUpload(c) /\ FTOnly
        \/ RecvChunk(c) /\ FTOnly
        \/ CloseUpload(c) /\ FTOnly
        \/ UploadStatus(c) /\ FTOnly
        \/ RecvDownload(c) /\ FTOnly
        \/ WaitReady(c) /\ FTOnly
        \/ SendChunk(c) /\ FTOnly
        \/ RecvList(c) /\ FTOnly
        \/ RecvUnknown(c) /\ FTOnly
        \/ RecvEmpty(c) /\ FTOnly
        \/ RecvNonObject(c) /\ FTOnly
        \/ Except(c) /\ FTOnly
        \/ Finally(c) /\ FTOnly

SpecFTExcess == InitFT /\ [][NextFTExcess]_vars

\* the voice relay: the accept loop and one worker per connection
VoiceOnly == UNCHANGED <<ftvars, rvars, lvars, evars, fvars, xvars>>

NextVoice ==
    \E v \in VConns :
        \/ \E m \in FirstMsgs : VJoin(v, m) /\ VoiceOnly
        \/ VRecvFrame(v) /\ VoiceOnly
        \/ \E eof \in BOOLEAN : VRecvEnd(v, eof) /\ VoiceOnly
        \/ \E p \in VConns : VRelay(v, p) /\ VoiceOnly
        \/ VCleanup(v) /\ VoiceOnly
        \/ VClose(v) /\ VoiceOnly

InitVoice == FTQuiet /\ VoiceInit /\ RadioQuiet /\ ListenerQuiet /\ EntryInit /\ FramingInit /\ XQuiet

SpecVoice == InitVoice /\ [][NextVoice]_vars

\* the radio engine: the broadcast thread and the callers of request_source
RadioOnly == UNCHANGED <<ftvars, vvars, lvars, evars, fvars, xvars>>

NextRadio ==
    \/ StartFile /\ RadioOnly
    \/ StartSource /\ RadioOnly
    \/ Snapshot /\ RadioOnly
    \/ Exit /\ RadioOnly
    \/ MicOpen /\ RadioOnly
    \/ RoutineCheck /\ RadioOnly
    \/ \E ok \in SendOutcomes : WavSend(ok) /\ RadioOnly
    \/ \E ok \in SendOutcomes : MicSend(ok) /\ RadioOnly
    \/ \E ok \in SendOutcomes : DummySend(ok) /\ RadioOnly
    \/ Stop /\ RadioOnly
    \/ \E src \in SourceArgs, file \in FileArgs :
          RequestSource(src, file) /\ RadioOnly

InitRadio == FTQuiet /\ VoiceInit /\ RadioInit /\ ListenerQuiet /\ EntryInit /\ FramingInit /\ XQuiet

SpecRadio == InitRadio /\ [][NextRadio]_vars

\* the voice relay with its worker threads scheduled fairly: a worker that
\* can write to a peer, leave its room or close its socket eventually does.
\* Reading is not fair: whether a packet arrives is up to the peer.
VoiceFairness ==
    \A v \in VConns :
        /\ WF_vvars(\E p \in VConns : VRelay(v, p))
        /\ WF_vvars(VCleanup(v))
        /\ WF_vvars(VClose(v))

\* the fair specification: every connection joins room r1, and the peers
\* of two of the three connections send audio
FairFirstMsgs == {FirstMsg("object", "join", "r1")}
FairSenders == {1, 2}

NextVoiceFair ==
    \E v \in VConns :
        \/ \E m \in FairFirstMsgs : VJoin(v, m) /\ VoiceOnly
        \/ v \in FairSenders /\ VRecvFrame(v) /\ VoiceOnly
        \/ \E eof \in BOOLEAN : VRecvEnd(v, eof) /\ VoiceOnly
        \/ \E p \in VConns : VRelay(v, p) /\ VoiceOnly
        \/ VCleanup(v) /\ VoiceOnly
        \/ VClose(v) /\ VoiceOnly

SpecVoiceFair == InitVoice /\ [][NextVoiceFair]_vars /\ VoiceFairness

\* the voice relay with remote ends that go away at any time, also while
\* their worker is writing to other members.  Every connection joins room
\* r1.  Besides the fairness of the workers' steps, a read on a connection
\* whose remote end is gone returns.  The peer of one connection sends
\* audio; the other two connections receive it.
DropSenders == {1}

VoiceDropFairness ==
    /\ VoiceFairness
    /\ \A v \in VConns : WF_vvars(VRecvClosed(v))

NextVoiceDrop ==
    \E v \in VConns :
        \/ \E m \in FairFirstMsgs : VJoin(v, m) /\ VoiceOnly
        \/ v \in DropSenders /\ VRecvFrame(v) /\ VoiceOnly
        \/ \E eof \in BOOLEAN : VRecvEnd(v, eof) /\ VoiceOnly
        \/ VPeerClose(v) /\ VoiceOnly
        \/ VRecvClosed(v) /\ VoiceOnly
        \/ \E p \in VConns : VRelay(v, p) /\ VoiceOnly
        \/ VCleanup(v) /\ VoiceOnly
        \/ VClose(v) /\ VoiceOnly

SpecVoiceDrop == InitVoice /\ [][NextVoiceDrop]_vars /\ VoiceDropFairness

\* the listeners of the file-transfer engine: process start, the two
\* listener threads, and the end of the workers they started
ListenerOnly == UNCHANGED <<ftvars, vvars, rvars, evars, fvars, xvars>>

NextListener ==
    \/ StartupEvent /\ ListenerOnly
    \/ \E use_ssl \in BOOLEAN : Main(use_ssl) /\ ListenerOnly
    \/ \E l \in Listeners : Bind(l) /\ ListenerOnly
    \/ CheckCerts /\ ListenerOnly
    \/ \E l \in Listeners, c \in LConns : LAccept(l, c) /\ ListenerOnly
    \/ \E h \in Handshakes : Handshake(h) /\ ListenerOnly
    \/ \E l \in Listeners, c \in LConns : WorkerEnd(l, c) /\ ListenerOnly

InitListener == FTQuiet /\ VoiceInit /\ RadioQuiet /\ ListenerInit /\ EntryInit /\ FramingInit /\ XQuiet

SpecListener == InitListener /\ [][NextListener]_vars

\* the radio entry point: invocations of start_multicast_server, their
\* engines, and the callers of set_radio_source
EntryOnly == UNCHANGED <<ftvars, vvars, rvars, lvars, fvars, xvars>>

NextEntry ==
    \/ \E i \in Invocations : Invoke(i) /\ EntryOnly
    \/ \E i \in Invocations : EngineStart(i) /\ EntryOnly
    \/ \E i \in Invocations : EngineStream(i) /\ EntryOnly
    \/ \E src \in SwitchArgs : UploadRadioFile(src) /\ EntryOnly
    \/ \E src \in SwitchArgs : StartRadioBroadcast(src) /\ EntryOnly
    \/ \E i \in Invocations : EngineStop(i) /\ EntryOnly

InitEntry == FTQuiet /\ VoiceInit /\ RadioQuiet /\ ListenerQuiet /\ EntryInit /\ FramingInit /\ XQuiet

SpecEntry == InitEntry /\ [][NextEntry]_vars

\* the voice framing: one peer writes packets, its worker reads them
FramingOnly == UNCHANGED <<ftvars, vvars, rvars, lvars, evars, xvars>>

NextFraming ==
    \/ \E p \in Payloads : SendPacket(p) /\ FramingOnly
    \/ \E n \in 0..(MaxPackets * (MaxPayload + 4)) : PeerEnds(n) /\ FramingOnly
    \/ WorkerRecv /\ FramingOnly

InitFraming ==
    FTQuiet /\ VoiceInit /\ RadioQuiet /\ ListenerQuiet /\ EntryInit /\ FramingInit /\ XQuiet

SpecFraming == InitFraming /\ [][NextFraming]_vars

\* the radio engine configured for WAV files, with a broadcast thread that
\* keeps taking steps
NextRadioWav ==
    \/ StartFile /\ RadioOnly
    \/ StartSource /\ RadioOnly
    \/ Snapshot /\ RadioOnly
    \/ Exit /\ RadioOnly
    \/ RoutineCheck /\ RadioOnly
    \/ \E ok \in BOOLEAN : WavSend(ok) /\ RadioOnly
    \/ Stop /\ RadioOnly
    \/ \E file \in ExistingFiles : RequestSource("wav", file) /\ RadioOnly

\* a step of the broadcast thread that raises nothing
BroadcastStep ==
    (StartFile \/ StartSource \/ Snapshot \/ Exit \/ RoutineCheck
        \/ WavSend(TRUE)) /\ RadioOnly

InitRadioWav ==
    /\ FTQuiet /\ VoiceInit /\ ListenerQuiet /\ EntryInit /\ FramingInit
    /\ XQuiet
    /\ RadioInit /\ ~has_sd /\ ~has_device /\ cfg_source = "wav"

SpecRadioWav ==
    InitRadioWav /\ [][NextRadioWav]_vars /\ WF_vars(BroadcastStep)

\* the writes of several relaying workers to one receiver
RelayWriteOnly ==
    UNCHANGED <<ftvars, vvars, rvars, lvars, evars, fvars, nvars, svars>>

NextRelayWrite ==
    \E s \in Senders :
        \/ \E n \in 1..MaxPayload : SendPacketTo(s, n) /\ RelayWriteOnly
        \/ \E k \in 1..(MaxPayload + 4) : SendSome(s, k) /\ RelayWriteOnly

InitRelayWrite ==
    /\ FTQuiet /\ VoiceInit /\ RadioQuiet /\ ListenerQuiet /\ EntryInit
    /\ FramingInit /\ RelayWriteInit /\ NormQuiet /\ StreamInit

SpecRelayWrite == InitRelayWrite /\ [][NextRelayWrite]_vars

\* the normalisation of the chunks of one WAV file
NormOnly ==
    UNCHANGED <<ftvars, vvars, rvars, lvars, evars, fvars, wvars, svars>>

NextNorm ==
    \/ ReadChunk /\ NormOnly
    \/ NormWidth /\ NormOnly
    \/ NormChannels /\ NormOnly
    \/ NormRate /\ NormOnly
    \/ SendChunkOut /\ NormOnly

InitNorm ==
    /\ FTQuiet /\ VoiceInit /\ RadioQuiet /\ ListenerQuiet /\ EntryInit
    /\ FramingInit /\ RelayWriteInit /\ NormInit /\ StreamInit

SpecNorm == InitNorm /\ [][NextNorm]_vars

\* the stream control: request handlers and sender threads
StreamOnly ==
    UNCHANGED <<ftvars, vvars, rvars, lvars, evars, fvars, wvars, nvars>>

NextStream ==
    \E r \in StreamReqs :
        \/ \E kind \in {"start", "stop"} : BeginRequest(r, kind) /\ StreamOnly
        \/ \E found \in BOOLEAN : StartCheck(r, found) /\ StreamOnly
        \/ StartSetStreaming(r) /\ StreamOnly
        \/ StartClearStop(r) /\ StreamOnly
        \/ StartSpawn(r) /\ StreamOnly
        \/ StopCheck(r) /\ StreamOnly
        \/ StopSignal(r) /\ StreamOnly
        \/ StopJoin(r) /\ StreamOnly
        \/ StopReset(r) /\ StreamOnly
        \/ SenderSeesStop(r) /\ StreamOnly
        \/ SenderExit(r) /\ StreamOnly

InitStream ==
    /\ FTQuiet /\ VoiceInit /\ RadioQuiet /\ ListenerQuiet /\ EntryInit
    /\ FramingInit /\ RelayWriteInit /\ NormQuiet /\ StreamInit

SpecStream == InitStream /\ [][NextStream]_vars

(***************************************************************************)
(* Properties of the file-transfer engine                                  *)
(***************************************************************************)
\* the upload session of c was accepted and has sent its final status
\* (no exception ended it before)
UploadFinished(c) ==
    /\ script[c].cmd = "UPLOAD"
    /\ ftpc[c] \in {"finally", "done"}
    /\ ~raised[c]
    /\ Len(replies[c]) = 2
    /\ replies[c][1] = "ok"

\* C1: an accepted upload that runs to its final status replies success if
\* and only if the bytes it received and wrote number exactly the declared
\* filesize, and replies "Incomplete upload" otherwise; on success the
\* session has written exactly filesize bytes through its handle.
UploadStatusIffComplete ==
    \A c \in Conns :
        UploadFinished(c) =>
            /\ replies[c][2] \in {"success", "Incomplete upload"}
            /\ (replies[c][2] = "success")
                   <=> (Len(wrote[c]) = script[c].filesize)
            /\ replies[c][2] = "success" =>
                   /\ wrote[c] = Payload(c, script[c].filesize)
                   /\ woff[c] = script[c].filesize
                   /\ wbuf[c] = <<>>

\* C1 witness: one upload ended with success after more than one read and
\* another ended incomplete
UploadStatusWitness ==
    \E c, d \in Conns :
        /\ UploadFinished(c) /\ replies[c][2] = "success"
        /\ script[c].filesize > BUFFER_SIZE
        /\ UploadFinished(d) /\ replies[d][2] = "Incomplete upload"

\* C6 (as claimed): a download that streamed the file to its end has
\* transmitted exactly the number of bytes announced in its response.
DownloadSendsAnnouncedSize ==
    \A c \in Conns :
        (/\ script[c].cmd = "DOWNLOAD"
         /\ script[c].ready = "READY"
         /\ ftpc[c] \in {"finally", "done"}
         /\ Len(replies[c]) = 1 /\ replies[c][1] = "ok filesize")
        => Len(dlsent[c]) = dlsize[c]

\* both connections carried an accepted upload whose peer sent every
\* declared byte, the two workers ran at the same time, and both are over
TwoFullUploads(c, d) ==
    /\ c # d
    /\ d \in ranWith[c]
    /\ UploadFinished(c) /\ UploadFinished(d)
    /\ script[c].sends = script[c].filesize
    /\ script[d].sends = script[d].filesize

\* the upload of c ended as it would have alone
UploadIntact(c) ==
    /\ replies[c][2] = "success"
    /\ disk[JoinPath(UPLOAD_DIR, script[c].filename)]
           = Payload(c, script[c].filesize)

SoleWriter(c) ==
    \A d \in Conns \ {c} :
        (script[d].cmd = "UPLOAD" /\ SavePath(d) = SavePath(c))
        => ftpc[d] \in {"idle", "recv_req", "open"}

\* C8: when the peer closes after k < filesize bytes of an accepted upload,
\* the loop ends normally, the reply is "Incomplete upload", and the target
\* file stays on disk holding exactly the k bytes received.
ShortUploadKeepsPartialFile ==
    \A c \in Conns :
        (UploadFinished(c) /\ script[c].sends < script[c].filesize) =>
            /\ replies[c] = <<"ok", "Incomplete upload">>
            /\ received[c] = script[c].sends
            /\ disk[SavePath(c)] # Absent
            /\ SoleWriter(c) =>
                   disk[SavePath(c)] = Payload(c, script[c].sends)

\* C8 witness: an upload cut short after at least one byte is over, and its
\* partial file is on disk
ShortUploadWitness ==
    \E c \in Conns :
        /\ UploadFinished(c)
        /\ script[c].sends < script[c].filesize
        /\ script[c].sends > 0
        /\ SoleWriter(c)
        /\ disk[SavePath(c)] = Payload(c, script[c].sends)

\* C14: on every path through a file-transfer worker the worker ends by
\* attempting the socket shutdown and then closing the socket; after an
\* exception a JSON error reply is attempted first, and a failed reply or a
\* failed shutdown does not prevent the close.
ClosesOnEveryPath ==
    \A c \in Conns :
        /\ ftpc[c] = "except" => (raised[c] /\ endlog[c] = <<>>)
        /\ ftpc[c] = "finally" =>
              IF raised[c]
              THEN /\ Len(endlog[c]) = 1
                   /\ endlog[c][1] \in {"error_reply", "error_reply_failed"}
              ELSE endlog[c] = <<>>
        /\ ftpc[c] = "done" =>
              LET n == Len(endlog[c])
              IN  /\ n = (IF raised[c] THEN 3 ELSE 2)
                  /\ endlog[c][n] = "close"
                  /\ endlog[c][n - 1] \in {"shutdown", "shutdown_failed"}
                  /\ raised[c] =>
                        endlog[c][1] \in {"error_reply", "error_reply_failed"}
        /\ ftpc[c] \notin {"except", "finally", "done"} => endlog[c] = <<>>

\* C14 witness: one worker is over after an exception whose error reply
\* and shutdown both failed, another after an exception whose error reply
\* was sent
ClosesWitness ==
    \E c, d \in Conns :
        /\ ftpc[c] = "done"
        /\ endlog[c] = <<"error_reply_failed", "shutdown_failed", "close">>
        /\ ftpc[d] = "done"
        /\ endlog[d] = <<"error_reply", "shutdown", "close">>

\* the session of c failed: an exception, a peer that went away before the
\* end of its upload or instead of answering READY, or a first message that
\* is not a request
Failed(c) ==
    \/ raised[c]
    \/ script[c].cmd = "UPLOAD" /\ script[c].sends < script[c].filesize
    \/ script[c].cmd = "DOWNLOAD" /\ script[c].ready \in {"junk", "closed"}
    \/ script[c].cmd \in {"GARBAGE", "ARRAY", "OTHER"}

\* the file of session c is never the target of another session's upload
Undisturbed(c) ==
    \A d \in Conns \ {c} :
        ~(script[d].cmd = "UPLOAD" /\ script[d].filename # EmptyName
          /\ script[c].filename # EmptyName
          /\ SavePath(d) = SavePath(c))

\* the replies a session gets when no other session is served
AloneReplies(s) ==
    IF s.cmd = "UPLOAD"
    THEN IF s.fault = "badsize" THEN {<<"exception">>}
         ELSE IF s.filename = EmptyName \/ s.filesize <= 0
              THEN {<<"Invalid upload request">>}
         ELSE IF s.fault = "reset" THEN {<<"ok">>}
         ELSE IF s.sends = s.filesize THEN {<<"ok", "success">>}
         ELSE {<<"ok", "Incomplete upload">>}
    ELSE IF s.cmd = "DOWNLOAD"
    THEN IF s.fault = "noname" THEN {<<"exception">>}
         ELSE {<<"Not found">>, <<"ok filesize">>}
    ELSE IF s.cmd = "LIST" THEN {<<"list">>}
    ELSE IF s.cmd = "OTHER" THEN {<<"Unknown command">>}
    ELSE IF s.cmd = "ARRAY" THEN {<<"exception">>}
    ELSE {<<>>}

RegularFilesUnderRoot(d) ==
    {p[Len(p)] : p \in {q \in Entries :
                            /\ Len(q) = Len(UPLOAD_DIR) + 1
                            /\ SubSeq(q, 1, Len(UPLOAD_DIR)) = UPLOAD_DIR
                            /\ d[q] \notin {Absent, Dir}}}

\* C19: LIST replies with status success; files is exactly the set of
\* names of the regular files directly under the upload root when the
\* listing is made (no sub-directory, nothing below one), and count is the
\* number of those names; an empty upload directory gives count 0 and no
\* names.
ListNamesRegularFiles ==
    /\ [](\A c \in Conns :
            (script[c].cmd = "LIST" /\ ftpc[c] \in {"finally", "done"}) =>
                /\ replies[c] = <<"list">>
                /\ listed[c].count = Cardinality(listed[c].files))
    /\ [][\A c \in Conns :
            (script[c].cmd = "LIST" /\ ftpc[c] = "recv_req"
             /\ ftpc'[c] # "recv_req") =>
                /\ listed'[c].files = RegularFilesUnderRoot(disk)
                /\ listed'[c].count = Cardinality(RegularFilesUnderRoot(disk))
                /\ (\A q \in Entries : disk[q] = Absent) =>
                      listed'[c] = [count |-> 0, files |-> {}]]_vars

\* C19 witness: a listing made while the upload root held two files, a
\* sub-directory and a file in the sub-directory names the two files
ListWitness ==
    \E c \in Conns :
        /\ script[c].cmd = "LIST" /\ ftpc[c] = "done"
        /\ listed[c] = [count |-> 2, files |-> {"a", "b"}]
        /\ disk[SubDir] = Dir /\ disk[Nested] # Absent

\* C20 (as claimed): a first message that is not an UPLOAD, DOWNLOAD or
\* LIST request has one of two outcomes: the reply "Unknown command" when
\* it parses, no reply when it does not parse or is empty; then the
\* connection is closed.
UnknownOrSilent ==
    \A c \in Conns :
        (ftpc[c] = "done"
         /\ script[c].cmd \notin {"UPLOAD", "DOWNLOAD", "LIST"}) =>
            /\ replies[c] \in {<<"Unknown command">>, <<>>}
            /\ script[c].cmd \in {"OTHER", "ARRAY"} =>
                  replies[c] = <<"Unknown command">>
            /\ script[c].cmd = "GARBAGE" => replies[c] = <<>>
            /\ endlog[c][Len(endlog[c])] = "close"

\* the smaller of two numbers
Min(a, b) == IF a < b THEN a ELSE b

\* C30: during an accepted upload received stays between 0 and filesize, no
\* read takes more than min(BUFFER_SIZE, filesize - received) bytes, the
\* bytes consumed never exceed the declared filesize, 'ok' is sent before
\* the first payload read, and the final status is sent only after the file
\* has been closed.
UploadStaysWithinFilesize ==
    /\ [](\A c \in Conns :
            script[c].cmd = "UPLOAD" =>
                /\ received[c] >= 0
                /\ received[c] <= script[c].filesize
                /\ Len(wrote[c]) <= script[c].filesize
                /\ received[c] = Len(wrote[c])
                /\ ftpc[c] \in {"open", "recv_loop", "close_file", "status"}
                       => replies[c] = <<"ok">>
                /\ Len(replies[c]) = 2
                       => /\ ftpc[c] \in {"finally", "done"}
                          /\ wbuf[c] = <<>>
                          /\ woff[c] = Len(wrote[c]))
    /\ [][\A c \in Conns :
            wrote'[c] # wrote[c] =>
                /\ ftpc[c] = "recv_loop"
                /\ Len(wrote'[c]) - Len(wrote[c]) <=
                       Min(BUFFER_SIZE, script[c].filesize - received[c])
                /\ Len(wrote'[c]) - Len(wrote[c]) >= 1]_vars

\* C30 witness: a peer sent more bytes than it declared, and its upload
\* took several reads and ended with success
UploadWithinWitness ==
    \E c \in Conns :
        /\ UploadFinished(c)
        /\ script[c].sends > script[c].filesize
        /\ script[c].filesize > BUFFER_SIZE
        /\ replies[c][2] = "success"

\* the request of c is an UPLOAD that the validation of line 54 rejects
RejectedUpload(c) ==
    /\ script[c].cmd = "UPLOAD"
    /\ (script[c].filename = EmptyName \/ script[c].filesize <= 0)

\* the request of c is rejected or only reads
RejectedOrReadOnly(c) ==
    script[c].cmd \in {"DOWNLOAD", "LIST", "OTHER", "GARBAGE", "ARRAY"}
    \/ RejectedUpload(c)

\* C31: an UPLOAD with an empty filename or a filesize <= 0 is answered
\* with one status-error reply, and no step of a worker serving a rejected
\* or read-only request (invalid UPLOAD, DOWNLOAD, LIST, unknown command,
\* unparseable message) changes the upload directory: every change of a
\* file is made by the worker of an accepted upload, to its own target.
RejectedLeavesDirectory ==
    /\ [](\A c \in Conns :
            (RejectedUpload(c) /\ ftpc[c] \in {"finally", "done"}) =>
                replies[c] \in {<<"Invalid upload request">>,
                                <<"exception">>})
    /\ [][disk' # disk =>
            \E c \in Conns :
                /\ ~RejectedOrReadOnly(c)
                /\ ftpc[c] \in {"open", "recv_loop", "close_file"}
                /\ \A p \in Entries \ {SavePath(c)} : disk'[p] = disk[p]]_vars

\* C31 witness: an UPLOAD of the existing file "a" with filesize 0 was
\* rejected, a DOWNLOAD of "a" was served, and "a" holds what it held
RejectedWitness ==
    \E c, d \in Conns :
        /\ RejectedUpload(c) /\ script[c].filename = <<"a">>
        /\ ftpc[c] = "done"
        /\ replies[c] = <<"Invalid upload request">>
        /\ script[d].cmd = "DOWNLOAD" /\ ftpc[d] = "done"
        /\ dlsent[d] = OldContent
        /\ disk[JoinPath(UPLOAD_DIR, <<"a">>)] = OldContent

\* two workers are inside the receive loop of an upload to the same path
SamePathWriters(c, d) ==
    /\ c # d
    /\ script[c].cmd = "UPLOAD" /\ script[d].cmd = "UPLOAD"
    /\ SavePath(c) = SavePath(d)
    /\ ftpc[c] = "recv_loop" /\ ftpc[d] = "recv_loop"

\* C32: uploads to one path are not serialised: while two workers are in
\* the write loop for the same path each of them can take its next step,
\* each handle has its own offset, which counts from 0 the bytes this
\* worker flushed, and a flush puts the worker's bytes at the positions
\* after its own offset and leaves every other position of the file as it
\* was, whatever the other worker wrote there.
UploadsNotSerialised ==
    /\ [](\A c, d \in Conns :
            SamePathWriters(c, d) =>
                /\ ENABLED RecvChunk(c)
                /\ ENABLED RecvChunk(d)
                /\ woff[c] + Len(wbuf[c]) = Len(wrote[c]))
    /\ [][\A c \in Conns :
            (ftpc[c] \in {"recv_loop", "close_file"} /\ woff'[c] # woff[c])
            => LET p == SavePath(c)
               IN  /\ woff'[c] > woff[c]
                   /\ Len(disk'[p]) >= woff'[c]
                   /\ \A i \in 1..Len(disk'[p]) :
                          IF i > woff[c] /\ i <= woff'[c]
                          THEN disk'[p][i] = Byte(c, i)
                          ELSE IF i <= Len(disk[p])
                          THEN disk'[p][i] = disk[p][i]
                          ELSE disk'[p][i] = 0]_vars

\* C32 witness: two concurrent uploads to the same path received every
\* declared byte and replied success, and the file equals neither payload
SamePathWitness ==
    \E c, d \in Conns :
        /\ TwoFullUploads(c, d)
        /\ SavePath(c) = SavePath(d)
        /\ replies[c][2] = "success" /\ replies[d][2] = "success"
        /\ disk[SavePath(c)] # Payload(c, script[c].filesize)
        /\ disk[SavePath(c)] # Payload(d, script[d].filesize)

\* the upload of c was accepted and its worker has opened the target
UploadOpened(c) ==
    /\ script[c].cmd = "UPLOAD"
    /\ replies[c] # <<>> /\ replies[c][1] = "ok"
    /\ ftpc[c] # "open"

\* C37: once the worker of an accepted upload has opened its target, the
\* file holds nothing of its previous content: it holds exactly the bytes
\* of this upload flushed so far (none before the first payload byte), and
\* after the upload is over, complete, incomplete or failed, exactly the
\* bytes received (no other writer of the path being at work).
UploadTruncatesAtOnce ==
    \A c \in Conns :
        (UploadOpened(c) /\ SoleWriter(c)) =>
            /\ disk[SavePath(c)] = SubSeq(wrote[c], 1, woff[c])
            /\ received[c] = 0 => disk[SavePath(c)] = <<>>
            /\ ftpc[c] \in {"status", "except", "finally", "done"} =>
                   disk[SavePath(c)] = wrote[c]

\* C37 witness: the file "a" held the old content; an upload of "a" ended
\* short of its filesize (incomplete or broken), the file holds the bytes
\* received, and a DOWNLOAD on the other connection was answered with the
\* size of a partial state
PartialStateObserved ==
    \E c, d \in Conns :
        /\ c # d
        /\ disk[Nested] = OldContent
        /\ UploadOpened(c) /\ SoleWriter(c)
        /\ SavePath(c) = JoinPath(UPLOAD_DIR, <<"a">>)
        /\ ftpc[c] \in {"finally", "done"}
        /\ Len(wrote[c]) < script[c].filesize
        /\ disk[SavePath(c)] = wrote[c]
        /\ script[d].cmd = "DOWNLOAD" /\ SavePath(d) = SavePath(c)
        /\ replies[d] = <<"ok filesize">>
        /\ dlsize[d] < Len(OldContent)

UnderRoot(p) ==
    /\ Len(p) > Len(UPLOAD_DIR)
    /\ SubSeq(p, 1, Len(UPLOAD_DIR)) = UPLOAD_DIR

\* C26 (as claimed): the file an UPLOAD has opened for writing and the file
\* a DOWNLOAD has found and reads lie under the upload root, whatever the
\* filename.
FilesUnderRoot ==
    \A c \in Conns :
        (\/ /\ script[c].cmd = "UPLOAD"
            /\ ftpc[c] \in {"recv_loop", "close_file", "status"}
         \/ /\ script[c].cmd = "DOWNLOAD"
            /\ ftpc[c] \in {"wait_ready", "send_loop"})
        => UnderRoot(SavePath(c))

(***************************************************************************)
(* Properties of the file-transfer listeners                               *)
(***************************************************************************)
\* C16 (as claimed): a failed handshake on an accepted socket closes that
\* socket, never starts a worker for it, and leaves the TLS listener
\* accepting.
HandshakeFailureIsolated ==
    \A c \in hsfailed :
        /\ lconn["tls"][c] = "closed"
        /\ c \notin dispatched["tls"]
        /\ lpc["tls"] \in {"accept", "handshake"}
        /\ bound["tls"]

\* C17 (as claimed): when the certificate or the key file is missing, the
\* TLS port is never bound, no listener thread crashes, and the plaintext
\* listener, once started, binds and accepts.
NoCertsNoBind ==
    ~certs =>
        /\ ~everBound["tls"]
        /\ lpc["tls"] \in {"off", "bind", "returned"}
        /\ lpc["plain"] \in {"off", "bind", "accept"}
        /\ lpc["plain"] = "accept" => bound["plain"]

(***************************************************************************)
(* Properties of the voice relay                                           *)
(***************************************************************************)
\* the packets written to connection p
Written(p) == {delivered[p][i] : i \in 1..Len(delivered[p])}

\* C2 (as claimed): a payload of a connection that joined room R is written
\* only to connections that are members of R when it is written, never to
\* its sender, and never to a connection of another room.
RelayOnlyToMembers ==
    /\ ~lateWrite
    /\ \A p \in VConns : \A w \in Written(p) :
          /\ w.from # p
          /\ vroom[p] = vroom[w.from]

\* C2 (amended): a payload of a connection that joined room R is written
\* only to connections that joined R and were members of R when the sender's
\* worker copied the member set for that payload (the receiver may have left
\* R since), never to its sender, and never to a connection that joined
\* another room.
RelayOnlyToJoined ==
    /\ \A p \in VConns : \A w \in Written(p) :
          /\ w.from # p
          /\ everMember[p] /\ everMember[w.from]
          /\ vroom[p] = vroom[w.from]
    /\ \A v \in VConns : \A p \in fanout[v] :
          p # v /\ everMember[p] /\ vroom[p] = vroom[v]

\* C2 witness: a packet was written while a connection of another room was
\* registered
RelayWitness ==
    \E p, q \in VConns :
        /\ delivered[p] # <<>>
        /\ vpc[q] \in {"loop", "relay"}
        /\ vroom[q] # vroom[p]

\* frame f of a was written to b
Delivered(a, f, b) ==
    \E w \in Written(b) : w.from = a /\ w.seq = f

\* b is connected, registered in its room, and its worker has not closed
Healthy(b) ==
    /\ sockOpen[b]
    /\ peer[b] = "live"
    /\ vpc[b] \in {"loop", "relay"}

\* the packets written to p keep, for each sender, the order of the sender
InOrder ==
    \A p \in VConns : \A i, j \in 1..Len(delivered[p]) :
        (i < j /\ delivered[p][i].from = delivered[p][j].from)
        => delivered[p][i].seq < delivered[p][j].seq

JoinGate ==
    \A v \in VConns :
        /\ everMember[v] => firstOK[v]
        /\ (\E r \in DOMAIN rooms : v \in rooms[r]) => firstOK[v]
        /\ (vpc[v] # "idle" /\ ~firstOK[v]) =>
              /\ vpc[v] \in {"cleanup", "close", "done"}
              /\ ~everMember[v]
              /\ consumed[v] = 0
              /\ delivered[v] = <<>>
              /\ \A p \in VConns : \A w \in Written(p) : w.from # v
              /\ vpc[v] = "done" => ~sockOpen[v]

\* C9 witness: a connection with an invalid first message is closed while
\* another connection is registered
JoinGateWitness ==
    \E v, w \in VConns :
        /\ vpc[v] = "done" /\ ~firstOK[v]
        /\ \E r \in DOMAIN rooms : w \in rooms[r]

\* C10: no room of the registry is empty, and every connection whose worker
\* is between its join and its cleanup is in the member set of its room.
NoEmptyRoom ==
    /\ \A r \in DOMAIN rooms : rooms[r] # {}
    /\ \A v \in VConns :
          vpc[v] \in {"loop", "relay"} =>
              vroom[v] \in DOMAIN rooms /\ v \in rooms[vroom[v]]

\* C10 witness: the last member of a room has left and its entry is gone
\* while another room has a member
NoEmptyRoomWitness ==
    \E v, w \in VConns :
        /\ vpc[v] = "done" /\ everMember[v]
        /\ vroom[v] \notin DOMAIN rooms
        /\ vpc[w] = "loop"

\* the rooms whose member set holds connection v
MemberRooms(v) == {r \in DOMAIN rooms : v \in rooms[r]}

\* C11: in every reachable state of the registry a connection is a member
\* of at most one room, and that room is the one its worker joined.
OneRoomPerConnection ==
    \A v \in VConns :
        /\ Cardinality(MemberRooms(v)) <= 1
        /\ MemberRooms(v) # {} => MemberRooms(v) = {vroom[v]}

\* C11 witness: two rooms have members at the same time, after a third
\* connection has been a member and has left
OneRoomWitness ==
    \E v, w, x \in VConns :
        /\ MemberRooms(v) = {"r1"}
        /\ MemberRooms(w) = {"r2"}
        /\ everMember[x] /\ MemberRooms(x) = {}

\* connection p is in the member set of a room
IsMember(p) == MemberRooms(p) # {}

\* a relay write to p by another member's worker failed while p was a
\* member of the room
WriteFailedTo(p) ==
    \E v \in VConns : \E f \in wfail[v] : f.to = p /\ f.member

\* the read loop of p's own worker has ended: EOF, a 0-length frame or a
\* failed read
ReadEnded(p) == vpc[p] = "cleanup"

FailedWriteSkipsOnlyThatPeer ==
    /\ [](\A v \in VConns : vpc[v] = "relay" <=> fanout[v] # {})
    /\ [][\A v \in VConns :
            (wfail'[v] # wfail[v] /\ wfail'[v] # {}) =>
                /\ \E p \in fanout[v] : fanout'[v] = fanout[v] \ {p}
                /\ vpc'[v] = (IF fanout'[v] = {} THEN "loop" ELSE "relay")
                /\ consumed'[v] = consumed[v]
                /\ v \in rooms'[vroom[v]]]_vars

\* C13 witness: one write of the current frame has failed, the same frame
\* has been written to another peer, and the worker is back at its read
FailedWriteWitness ==
    \E v, p \in VConns :
        /\ vpc[v] = "loop"
        /\ wfail[v] # {}
        /\ fanout[v] = {}
        /\ Delivered(v, consumed[v], p)

\* the thread of the worker has ended
WorkerOver(v) == vpc[v] \in {"done", "crashed"}

\* C34 (as claimed): a voice worker that has terminated has shut down and
\* closed its socket and its connection is in no room, and the registry
\* holds only connections whose worker is between its join and its cleanup.
WorkerEndsClosed ==
    /\ \A v \in VConns :
          WorkerOver(v) =>
              /\ ~sockOpen[v]
              /\ \A r \in DOMAIN rooms : v \notin rooms[r]
    /\ \A r \in DOMAIN rooms : \A v \in rooms[r] :
          vpc[v] \in {"loop", "relay", "cleanup"}

(***************************************************************************)
(* Properties of the radio engine                                          *)
(***************************************************************************)
\* the broadcast thread is inside a streaming routine
InRoutine ==
    rpc \in {"mic_open", "mic", "wav", "dummy", "mic_send", "wav_send",
             "dummy_send"}

\* the routine a position of the broadcast thread belongs to
RoutineOf(pc) ==
    IF pc \in {"mic_open", "mic", "mic_send"} THEN "mic"
    ELSE IF pc \in {"wav", "wav_send"} THEN "wav"
    ELSE "dummy"

\* C4: at most one streaming routine is executing, and every datagram holds
\* bytes of exactly one source.
OneSourcePerDatagram ==
    /\ Cardinality(active) <= 1
    /\ InRoutine => active = {RoutineOf(rpc)}
    /\ dgram # NoDgram => Cardinality(dgram.origins) = 1

\* C4 witness: after two source switches the WAV routine has sent a
\* resampled chunk of the second file
OneSourceWitness ==
    /\ reqCount = 2
    /\ dgram = [routine |-> "wav", origins |-> {"b.wav"}]
    /\ rate_state = "b.wav"

\* C5 (as claimed): no request is lost, whenever it arrives: a routine that
\* runs with no change pending runs from the source and file the requests
\* asked for.
RequestNeverLost ==
    (InRoutine /\ ~change_requested /\ reqCount > 0) => snap = want

\* C21 (as claimed): every write of the radio state and every read of it
\* that drives the broadcast thread is made while holding the lock.
RadioStateLocked == unlocked = {}

\* the source a snapshot selects, with auto resolved (start lines 63-64)
Resolved(src) == IF src = "auto" THEN (IF has_sd THEN "mic" ELSE "wav") ELSE src

\* the source of the snapshot cannot be used: the WAV file is missing, or
\* no capture device can be opened
SourceUnavailable ==
    \/ Resolved(snap.source) = "wav" /\ snap.file \notin ExistingFiles
    \/ Resolved(snap.source) = "mic" /\ ~(has_sd /\ has_device)

\* C23 (as claimed): whenever the selected source is unavailable, the
\* routine the engine runs is the dummy routine.
UnavailableRunsDummy ==
    (InRoutine /\ SourceUnavailable) => RoutineOf(rpc) = "dummy"

\* C24: the broadcast thread has ended only if stop() was called; an
\* exception inside a streaming routine returns the thread to the outer
\* loop.
EndsOnlyByStop ==
    /\ [](rpc = "stopped" => stopCalled)
    /\ [][(active' # active /\ active' \subseteq active /\ ~stopCalled')
             => rpc' = "snapshot"]_vars

\* C24 witness: a routine raised (its send failed on the open socket, or
\* the capture device could not be opened) and the thread streams again
RoutineRaised ==
    /\ rpc = "snapshot"
    /\ running
    /\ ~change_requested
    /\ snap.source # ""

\* C28: a routine sends at most one datagram after the flag was set, and it
\* returns without sending: the step that leaves the routine emits nothing.
AtMostOneLateDatagram ==
    /\ [](late <= 1)
    /\ [][(active' # active /\ active' \subseteq active)
             => dgram' = dgram /\ late' = late]_vars

\* C28 witness: the flag was set after the routine's check, the routine
\* sent the datagram it was producing and is back at its check
LateDatagramWitness ==
    /\ late = 1
    /\ change_requested
    /\ rpc \in {"mic", "wav", "dummy"}
    /\ dgram.routine = rpc

\* the routine the claim gives for a snapshot
ClaimedRoutine(src, file) ==
    CASE src = "auto" /\ has_sd -> "mic"
      [] src = "auto" /\ ~has_sd ->
            IF file \in ExistingFiles THEN "wav" ELSE "dummy"
      [] src = "mic" -> IF has_sd THEN "mic" ELSE "dummy"
      [] src = "wav" -> IF file \in ExistingFiles THEN "wav" ELSE "dummy"
      [] OTHER -> "dummy"

OneBroadcastThread ==
    Cardinality({i \in Invocations : eng[i].pc = "streaming"}) <= 1

\* number of bytes the first k packets of the peer take on the wire
RECURSIVE WireOffset(_)
WireOffset(k) ==
    IF k = 0 THEN 0 ELSE WireOffset(k - 1) + 4 + Len(sentPkts[k])

\* packet k of the peer is non-empty and has arrived whole
ArrivedWhole(k) ==
    /\ k <= Len(sentPkts)
    /\ sentPkts[k] # <<>>
    /\ WireOffset(k) <= Len(wire)

\* C25: the k-th read returns the k-th payload and has consumed 4 + len
\* bytes for it when that payload is non-empty and arrived whole; a zero
\* length, or end of stream in the header or in the payload, returns the
\* empty result, which ends the worker's loop and is never relayed.
FramingRoundTrip ==
    /\ \A k \in 1..Len(results) :
          IF ArrivedWhole(k)
          THEN /\ results[k] = sentPkts[k]
               /\ k = Len(results) => rpos = WireOffset(k)
          ELSE /\ results[k] = <<>>
               /\ k = Len(results)
    /\ wended <=> (results # <<>> /\ results[Len(results)] = <<>>)
    /\ relayedPkts = SelectSeq(results, LAMBDA d : d # <<>>)

\* C25 witness: one packet was read back whole and relayed, and the read
\* of the next met the end of the stream inside its payload
FramingWitness ==
    /\ Len(relayedPkts) = 1
    /\ wended
    /\ Len(sentPkts) = 2
    /\ sentPkts[2] # <<>>
    /\ rpos > WireOffset(1) + 4

\* what the receiver's _recv_packet calls return from a byte stream
RECURSIVE DecodeFrames(_)
DecodeFrames(bytes) ==
    IF Len(bytes) < 4 THEN <<>>
    ELSE LET n == Unpack32(SubSeq(bytes, 1, 4))
         IN  IF n <= 0 \/ Len(bytes) < 4 + n THEN <<>>
             ELSE <<SubSeq(bytes, 5, 4 + n)>>
                      \o DecodeFrames(SubSeq(bytes, 5 + n, Len(bytes)))

\* C33 (as claimed): when the workers of several senders relay to one
\* receiver at the same time, what was written to the receiver's socket is
\* a concatenation of whole frames: once every _send_packet has returned,
\* the receiver decodes exactly the payloads that were sent.
RelayWritesWholeFrames ==
    (\A s \in Senders : SendReturned(s)) =>
        \E s, t \in Senders :
            /\ s # t
            /\ rxwire = outpkt[s] \o outpkt[t]
            /\ DecodeFrames(rxwire) = <<handed[s], handed[t]>>

\* C36 (as claimed): a chunk the WAV routine has sent is in the configured
\* output format (target width, channel count and rate), and the format
\* the routine recorded for it, which paces the loop, is the format of its
\* bytes.
EmittedInTargetFormat ==
    npc = "sent" => (bytesfmt = target /\ outfmt = bytesfmt)

\* the run_multicast_sender threads that are alive
AliveSenders == {t \in StreamReqs : sender[t] \in {"loop", "exiting"}}

\* no handler of the stream control is between its first and last line
NoRequestInFlight ==
    \A r \in StreamReqs : sreq[r].pc \in {"idle", "done", "refused", "notfound"}

\* C40 (as claimed): at most one run_multicast_sender thread is alive, and
\* (when no request is being handled) is_streaming is true exactly when a
\* sender thread exists that has not been signalled to stop.
StreamControlSafe ==
    /\ Cardinality(AliveSenders) <= 1
    /\ NoRequestInFlight =>
           (is_streaming <=> (AliveSenders # {} /\ ~stop_signal))


\* C39 (as claimed): set_radio_source returns False, and changes nothing,
\* only while no engine is registered; once start_multicast_server has been
\* invoked an engine is registered; and a call that returns True has
\* recorded the request in an engine whose broadcast thread is running.
SetRadioSourceContract ==
    /\ [](\A i \in Invocations : eng[i].pc # "idle" => radio_server # 0)
    /\ [][(set_result' = "False" /\ set_result # "False")
              => (radio_server = 0 /\ eng' = eng)]_vars
    /\ [][(set_result' = "True" /\ set_result # "True")
              => /\ eng'[radio_server].flag
                 /\ eng'[radio_server].pc = "streaming"]_vars


\* the WAV routine is at its read, at the end of the file, with the engine
\* running and no change requested
AtEndOfFile ==
    /\ rpc = "wav_send"
    /\ wavpos >= Chunks(snap.file)
    /\ running /\ ~change_requested

\* C35 (as claimed): end-of-file does not end the WAV routine, which
\* rewinds and goes on, and after every end-of-file met while the engine
\* runs and no change is requested the routine emits a datagram again
\* (unless the engine is stopped, a change is requested or an exception
\* ends the routine meanwhile), for every file it could open.
WavLoopsForever ==
    /\ [][(AtEndOfFile /\ rpc' # rpc /\ rsock' = rsock /\ running')
              => (rpc' \in {"wav", "snapshot"} /\ wavpos' \in {0, wavpos})]_vars
    /\ (AtEndOfFile ~>
           \/ (rpc \in {"wav", "wav_send"} /\ wavpos > 0)
           \/ ~running
           \/ change_requested
           \/ rpc \notin {"wav", "wav_send"})


====
